---- MODULE Spec2Model ----
(***************************************************************************)
(* Decision pipeline of the trading engine: TradingPipeline                *)
(* (services/api/pipeline.py), RiskManager (services/risk/risk.py), the    *)
(* kill-switch endpoints (services/api/main.py) and AlpacaBroker.          *)
(* place_order (services/broker/alpaca_broker.py), and the fallback chain  *)
(* of data providers, DataProviderChain (libs/data_providers.py).          *)
(*                                                                         *)
(* Money is in whole dollars. Fractions the code holds as floats (0.02,    *)
(* 0.60, 0.40, scores in [0,1]) are held as percent, and every comparison  *)
(* of a ratio is cross-multiplied, so a/b > p% is written a*100 > p*b.     *)
(* The inputs enumerated below are ones where the IEEE-double evaluation   *)
(* of the code agrees with the exact arithmetic used here.                 *)
(***************************************************************************)
EXTENDS Integers, Sequences, FiniteSets, TLC

\* ---------------------------------------------------------------- bounds
MaxRuns == 2          \* pipeline runs started in one behaviour
MaxOrders == 3        \* longest proposed order list given to check_exposure_limits
MaxFetches == 2       \* calls of DataProviderChain.fetch_daily_bars in one behaviour
MaxTicks == 3         \* steps of the clock, each of half a cooldown
MaxIngests == 3       \* writes of MarketDataIngestor to price_data in one behaviour
MaxRequests == 3      \* calls of the methods of an AlphaVantageProvider in one behaviour
MaxDays == 2          \* calendar dates a behaviour runs through

\* ------------------------------------------------------- program constants
RISK_MAX_SINGLE_NAME == 2     \* percent of equity
RISK_GROSS_MAX == 60          \* percent of equity
RISK_NET_MAX == 40            \* percent of equity
DAILY_DRAWDOWN_HALT == 2      \* percent of last_equity
max_positions == 20
MinPositionValue == 100       \* "At least $100"
MaxPositionValue == 50000     \* "Max $50k per position"
DefaultPrice == 100           \* order.get('price', 100)
PlaceholderQty == 10          \* qty written by _create_trade_plan
BuyThreshold == 60            \* signal.get('score', 0) > 0.6

NoPrice == 0                  \* an order dict without a 'price' key / no PriceData row

\* ------------------------------------------------------------- arithmetic
Abs(x) == IF x < 0 THEN 0 - x ELSE x
Min(a, b) == IF a < b THEN a ELSE b
Max(a, b) == IF a > b THEN a ELSE b

\* ------------------------------------------------------ RiskManager: sums
RECURSIVE PositionsGross(_)
PositionsGross(ps) ==
    IF ps = <<>> THEN 0
    ELSE Abs(Head(ps).market_value) + PositionsGross(Tail(ps))

RECURSIVE PositionsLong(_)
PositionsLong(ps) ==
    IF ps = <<>> THEN 0
    ELSE (IF Head(ps).qty > 0 THEN Head(ps).market_value ELSE 0)
         + PositionsLong(Tail(ps))

RECURSIVE PositionsShort(_)
PositionsShort(ps) ==
    IF ps = <<>> THEN 0
    ELSE (IF Head(ps).qty < 0 THEN Abs(Head(ps).market_value) ELSE 0)
         + PositionsShort(Tail(ps))

\* order['qty'] * order.get('price', 100)
OrderValue(o) == o.qty * (IF o.price = NoPrice THEN DefaultPrice ELSE o.price)

RECURSIVE OrdersValue(_)
OrdersValue(os) ==
    IF os = <<>> THEN 0 ELSE OrderValue(Head(os)) + OrdersValue(Tail(os))

\* ------------------------------------------- RiskManager.calculate_position_size
\* signal_strength is a score in percent.
calculate_position_size_of_all_equity(signal_strength, account_equity, current_price) ==
    LET shares     == (account_equity * Min(100, signal_strength))
                          \div (100 * current_price)
        min_shares == Max(1, MinPositionValue \div current_price)
        max_shares == MaxPositionValue \div current_price
    IN  Max(min_shares, Min(shares, max_shares))

calculate_position_size(signal_strength, account_equity, current_price) ==
    LET shares     == (account_equity * RISK_MAX_SINGLE_NAME * Min(100, signal_strength))
                          \div (100 * 100 * current_price)
        min_shares == Max(1, MinPositionValue \div current_price)
        max_shares == MaxPositionValue \div current_price
    IN  Max(min_shares, Min(shares, max_shares))

\* ------------------------------------------- RiskManager.check_exposure_limits
\* One pass over proposed_orders. current_gross, current_long and current_short
\* are computed once from the positions and are not reassigned in the loop.
RECURSIVE ExposureLoop(_, _, _, _, _, _)
ExposureLoop(proposed_orders, current_gross, current_long, current_short, account_equity, acc) ==
    IF proposed_orders = <<>> THEN acc
    ELSE
      LET order       == Head(proposed_orders)
          rest        == Tail(proposed_orders)
          order_value == OrderValue(order)
          new_gross   == current_gross + Abs(order_value)
          new_net_num == IF order.side = "buy"
                         THEN current_long - current_short + order_value
                         ELSE current_long - current_short - order_value
          Reject(kind) ==
              [acc EXCEPT !.violations =
                   Append(@, [symbol |-> order.symbol, kind |-> kind])]
      IN  IF order_value * 100 > account_equity * RISK_MAX_SINGLE_NAME
          THEN ExposureLoop(rest, current_gross, current_long, current_short,
                            account_equity, Reject("single_name"))
          ELSE IF new_gross * 100 > account_equity * RISK_GROSS_MAX
          THEN ExposureLoop(rest, current_gross, current_long, current_short,
                            account_equity, Reject("gross"))
          ELSE IF Abs(new_net_num) * 100 > RISK_NET_MAX * account_equity
          THEN ExposureLoop(rest, current_gross, current_long, current_short,
                            account_equity, Reject("net"))
          ELSE ExposureLoop(rest, current_gross, current_long, current_short,
                            account_equity,
                            [acc EXCEPT !.approved = Append(@, order)])

check_exposure_limits(proposed_orders, current_positions, account_equity) ==
    ExposureLoop(proposed_orders,
                 PositionsGross(current_positions),
                 PositionsLong(current_positions),
                 PositionsShort(current_positions),
                 account_equity,
                 [approved |-> <<>>, violations |-> <<>>])

\* ------------------------------------------- RiskManager.check_circuit_breakers
\* TRUE = ok. daily_return < -halt, with daily_return = (equity-last)/last.
DrawdownHitAtThreshold(equity, last_equity) ==
    /\ last_equity > 0
    /\ (equity - last_equity) * 100 <= (0 - DAILY_DRAWDOWN_HALT) * last_equity

DrawdownHit(equity, last_equity) ==
    /\ last_equity > 0
    /\ (equity - last_equity) * 100 < (0 - DAILY_DRAWDOWN_HALT) * last_equity

check_circuit_breakers(account_data) ==
    IF DrawdownHit(account_data.equity, account_data.last_equity)
    THEN [ok |-> FALSE, msg |-> "Daily drawdown limit hit"]
    ELSE [ok |-> TRUE,  msg |-> "All circuit breakers passed"]

\* ------------------------------------------- RiskManager.optimize_portfolio
StopLossPct == 5              \* config.get('stop_loss_pct', 0.05)
TakeProfitPct == 15           \* config.get('take_profit_pct', 0.15)

\* Prices of stops and targets are held in cents: entry * (100 -/+ pct).
calculate_stop_loss(entry_price, side) ==
    IF side = "buy" THEN entry_price * (100 - StopLossPct)
                    ELSE entry_price * (100 + StopLossPct)

calculate_take_profit(entry_price, side) ==
    IF side = "buy" THEN entry_price * (100 + TakeProfitPct)
                    ELSE entry_price * (100 - TakeProfitPct)

\* sorted(signals, key=score, reverse=True): stable, equal scores keep input order.
RECURSIVE InsertByScore(_, _)
InsertByScore(sorted, x) ==
    IF sorted = <<>> THEN <<x>>
    ELSE IF Head(sorted).score >= x.score
         THEN <<Head(sorted)>> \o InsertByScore(Tail(sorted), x)
         ELSE <<x>> \o sorted

RECURSIVE SortByScoreDesc(_, _)
SortByScoreDesc(signals_, acc) ==
    IF signals_ = <<>> THEN acc
    ELSE SortByScoreDesc(Tail(signals_), InsertByScore(acc, Head(signals_)))

FirstNUncapped(s, n) == s

FirstN(s, n) == SubSeq(s, 1, Min(n, Len(s)))

\* The loop body over sorted_signals[:max_positions]; latest_close maps a symbol
\* to the close of its latest PriceData row, NoPrice when it has no row.
RECURSIVE OptimizeLoop(_, _, _, _, _)
OptimizeLoop(sorted_signals, latest_close, equity, total_allocated, orders) ==
    IF sorted_signals = <<>> THEN orders
    ELSE
      LET signal        == Head(sorted_signals)
          rest          == Tail(sorted_signals)
          current_price == latest_close[signal.symbol]
      IN  IF signal.action # "buy" \/ current_price = NoPrice
          THEN OptimizeLoop(rest, latest_close, equity, total_allocated, orders)
          ELSE
            LET position_size == calculate_position_size(signal.score,
                                     equity - total_allocated, current_price)
                order_value   == position_size * current_price
                order == [symbol      |-> signal.symbol,
                          side        |-> "buy",
                          qty         |-> position_size,
                          order_type  |-> "market",
                          price       |-> current_price,
                          stop_loss   |-> calculate_stop_loss(current_price, "buy"),
                          take_profit |-> calculate_take_profit(current_price, "buy"),
                          confidence  |-> signal.score]
            IN  IF position_size > 0
                THEN IF (total_allocated + order_value) * 100 > equity * RISK_GROSS_MAX
                     THEN orders
                     ELSE OptimizeLoop(rest, latest_close, equity,
                                       total_allocated + order_value,
                                       Append(orders, order))
                ELSE OptimizeLoop(rest, latest_close, equity, total_allocated, orders)

optimize_portfolio(signals_, account_data, latest_close) ==
    OptimizeLoop(FirstN(SortByScoreDesc(signals_, <<>>), max_positions),
                 latest_close, account_data.equity, 0, <<>>)

\* ------------------------------------------- RiskManager.calculate_risk_metrics
\* gross_exposure and net_exposure are the numerators over account_equity.
EmptyMetrics ==
    [total_gross |-> 0, total_net |-> 0, account_equity |-> 0,
     position_count |-> 0, current_gross |-> 0, current_net |-> 0,
     proposed_value |-> 0]

calculate_risk_metrics(orders, positions_, account_equity) ==
    LET current_gross == PositionsGross(positions_)
        current_net   == PositionsLong(positions_) - PositionsShort(positions_)
        order_value   == OrdersValue(orders)
    IN  [total_gross    |-> IF account_equity > 0 THEN current_gross + Abs(order_value) ELSE 0,
         total_net      |-> IF account_equity > 0 THEN current_net + order_value ELSE 0,
         account_equity |-> account_equity,
         position_count |-> Len(positions_) + Len(orders),
         current_gross  |-> current_gross,
         current_net    |-> current_net,
         proposed_value |-> order_value]

\* ------------------------------------------- TradingPipeline._create_trade_plan
ActionOf(score) ==
    IF score > 60 THEN "buy" ELSE IF score < 40 THEN "sell" ELSE "hold"

PlaceholderOrder(signal) ==
    [symbol |-> signal.symbol, side |-> "buy", qty |-> PlaceholderQty,
     order_type |-> "market", price |-> NoPrice, stop_loss |-> 0,
     take_profit |-> 0, confidence |-> signal.score]

RECURSIVE PlaceholderOrders(_)
PlaceholderOrders(signals_) ==
    IF signals_ = <<>> THEN <<>>
    ELSE (IF Head(signals_).action = "buy" /\ Head(signals_).score > BuyThreshold
          THEN <<PlaceholderOrder(Head(signals_))>> ELSE <<>>)
         \o PlaceholderOrders(Tail(signals_))

EmptyPlan ==
    [orders |-> <<>>, signals |-> <<>>, notes |-> "", error |-> "",
     risk_violations |-> <<>>, risk_metrics |-> EmptyMetrics]

create_trade_plan(signals_) ==
    [EmptyPlan EXCEPT !.orders = PlaceholderOrders(signals_), !.signals = signals_]

\* ------------------------------------------- TradingPipeline._apply_risk_management
RiskFaults == {"none", "get_account", "get_positions", "check_circuit_breakers",
               "optimize_portfolio", "check_exposure_limits", "calculate_risk_metrics"}

\* except Exception: clear the orders, keep str(e) under 'error'.
RiskExceptHandlerKeepingOrders(plan, fault) ==
    [plan EXCEPT !.error = fault]

RiskExceptHandler(plan, fault) ==
    [plan EXCEPT !.orders = <<>>, !.error = fault]

\* fault names the call of the try block that raises ("none": no call raises).
apply_risk_management(plan, account, positions_, latest_close, fault) ==
    IF fault \in {"get_account", "get_positions", "check_circuit_breakers"}
    THEN RiskExceptHandler(plan, fault)
    ELSE
      LET breaker == check_circuit_breakers(account) IN
      IF ~breaker.ok
      THEN [plan EXCEPT !.orders = <<>>, !.notes = breaker.msg]
      ELSE IF fault = "optimize_portfolio" /\ plan.signals # <<>>
      THEN RiskExceptHandler(plan, fault)
      ELSE
        LET optimized == IF plan.signals # <<>>
                         THEN [plan EXCEPT !.orders =
                                  optimize_portfolio(plan.signals, account, latest_close)]
                         ELSE plan
        IN
        IF fault = "check_exposure_limits"
        THEN RiskExceptHandler(optimized, fault)
        ELSE
          LET checked  == check_exposure_limits(optimized.orders, positions_, account.equity)
              filtered == [optimized EXCEPT !.orders = checked.approved,
                                            !.risk_violations = checked.violations]
          IN
          IF fault = "calculate_risk_metrics"
          THEN RiskExceptHandler(filtered, fault)
          ELSE [filtered EXCEPT !.risk_metrics =
                   calculate_risk_metrics(checked.approved, positions_, account.equity)]

\* ------------------------------------------- TradingPipeline._check_circuit_breakers
\* kill_switch is the value read under GLOBAL_KILL_SWITCH (an absent key reads
\* like "false"). halt: the method returns False; kill_switch: the value the
\* key holds when the method returns.
check_breakers_ignoring_flag(kill_switch, account) ==
    IF DrawdownHit(account.equity, account.last_equity)
    THEN [halt |-> TRUE, kill_switch |-> "true"]
    ELSE [halt |-> FALSE, kill_switch |-> kill_switch]

check_breakers_self_clearing(kill_switch, account) ==
    IF DrawdownHit(account.equity, account.last_equity)
    THEN [halt |-> TRUE, kill_switch |-> "true"]
    ELSE IF kill_switch = "true"
         THEN [halt |-> TRUE, kill_switch |-> "false"]
         ELSE [halt |-> FALSE, kill_switch |-> kill_switch]

pipeline_check_circuit_breakers(kill_switch, account) ==
    IF kill_switch = "true"
    THEN [halt |-> TRUE, kill_switch |-> kill_switch]
    ELSE IF DrawdownHit(account.equity, account.last_equity)
         THEN [halt |-> TRUE, kill_switch |-> "true"]
         ELSE [halt |-> FALSE, kill_switch |-> kill_switch]

\* ------------------------------------------- TradingPipeline._save_trade_plan
\* notes=f"Generated {n} orders": the template, n, and the further messages the
\* text carries (none).
PlanNotes(plan) ==
    [template |-> "Generated %d orders", count |-> Len(plan.orders), messages |-> {}]

RECURSIVE SymbolsOf(_)
SymbolsOf(orders) ==
    IF orders = <<>> THEN <<>> ELSE <<Head(orders).symbol>> \o SymbolsOf(Tail(orders))

\* The TradePlan row; run is bookkeeping (which run wrote the row).
TradePlanRow(plan, mode, run) ==
    [mode         |-> mode,
     universe     |-> SymbolsOf(plan.orders),
     orders       |-> plan.orders,
     risk_metrics |-> plan.risk_metrics,
     notes        |-> PlanNotes(plan),
     approved     |-> FALSE,
     executed     |-> FALSE,
     run          |-> run]

\* ------------------------------------------- TradingPipeline.run, step 7 gate
ExecuteGateIgnoringDryRun(auto_execute_, dry_run_) == auto_execute_

ExecuteGate(auto_execute_, dry_run_) == auto_execute_ /\ ~dry_run_

\* ------------------------------------------- TradingPipeline._execute_trades
\* One iteration of the loop: outcome "accepted" is place_order returning, every
\* other outcome is place_order raising.
RecordOutcomeDroppingFailures(results_, order, outcome) ==
    IF outcome = "accepted"
    THEN [results_ EXCEPT !.submitted = Append(@, order.symbol)]
    ELSE results_

RecordOutcome(results_, order, outcome) ==
    IF outcome = "accepted"
    THEN [results_ EXCEPT !.submitted = Append(@, order.symbol)]
    ELSE [results_ EXCEPT !.failed =
              Append(@, [symbol |-> order.symbol, error |-> outcome])]

\* AlpacaBroker.place_order: the kill switch is read first; past it the request
\* is sent (submit_order) and the Order row is committed.
PlaceOrderOutcomesWithoutCheck(kill_switch) ==
    {"accepted", "rejected", "db_error"}

PlaceOrderOutcomes(kill_switch) ==
    IF kill_switch = "true" THEN {"paused"}
    ELSE {"accepted", "rejected", "db_error"}

ReachesBroker(outcome) == outcome \in {"accepted", "db_error"}

\* plan = session.query(TradePlan).filter_by(id=plan_id).first()
\* plan.executed = len(results['submitted']) > 0
set_executed_trimming_orders(plans, id, submitted) ==
    [plans EXCEPT ![id].executed = Len(submitted) > 0,
                  ![id].orders = SelectSeq(@, LAMBDA o :
                                     \E i \in 1..Len(submitted) : submitted[i] = o.symbol)]

set_executed(plans, id, submitted) ==
    [plans EXCEPT ![id].executed = Len(submitted) > 0]

\* ------------------------------------- TradingPipeline._ingest_news, step 2
\* The status of the dict returned: the except branch returns "failed".
ingest_news(ok) == IF ok THEN "completed" ELSE "failed"

\* ------------------------------- TradingPipeline._fetch_market_data, step 3
fetch_market_data(ok) == IF ok THEN "completed" ELSE "failed"

\* --------------------------------- TradingPipeline._generate_signals, step 4
\* The list of generator.generate_signals(), or [] from the except branch.
generate_signals_keeping_list(ok, generated) == generated

generate_signals(ok, generated) == IF ok THEN generated ELSE <<>>

\* ---------------------------------- TradingPipeline._save_trade_plan, step 6
\* session.add(db_plan); session.commit(): one more row, whatever it holds.
add_plan_unless_empty(plans, row) ==
    IF row.orders = <<>> THEN plans ELSE Append(plans, row)

add_plan(plans, row) == Append(plans, row)

\* --------------------------------------------------- libs/data_providers.py
\* DataProviderChain.providers, in the order of the list.
ProviderNames == <<"Yahoo Finance", "Finnhub">>

CooldownSeconds == 60

\* A dict is a function whose domain is its set of keys.
EmptyDict == [k \in {} |-> 0]
Put(d, k, v) == [x \in DOMAIN d \cup {k} |-> IF x = k THEN v ELSE d[x]]
Remove(d, k) == [x \in DOMAIN d \ {k} |-> d[x]]

\* list(remaining_symbols): the elements of the set in some order.
Orderings(S) ==
    { q \in [1..Cardinality(S) -> S] : \A i, j \in 1..Cardinality(S) : q[i] = q[j] => i = j }

\* What a provider did with one batch: the symbols it sent a request for, the
\* symbols it returned a frame with bars for, the symbols it returned an empty
\* frame for, whether it met HTTP 429, and the exception it raised if any.
ProviderOutput(requested, bars, empty, rate_limited, raised) ==
    [requested |-> requested, bars |-> bars, empty |-> empty,
     rate_limited |-> rate_limited, raised |-> raised]

\* YFinanceProvider.fetch_daily_bars: a symbol whose history is empty or whose
\* lookup raises is left out of the dict.
YahooResponses == {"bars", "empty", "error"}

YFinanceFetch(symbols, resp) ==
    ProviderOutput(symbols,
                   { symbols[i] : i \in { j \in 1..Len(symbols) : resp[symbols[j]] = "bars" } },
                   {}, FALSE, "none")

\* FinnhubProvider.fetch_daily_bars: one GET per symbol, in order; 429 and 403
\* break the loop. "ok" is status 200 with s = ok and a candle list, "ok_empty"
\* the same with empty lists, "no_data" any other answer or an exception.
FinnhubResponses == {"ok", "ok_empty", "no_data", "429", "403"}

RECURSIVE FinnhubLoop(_, _, _, _)
FinnhubLoop(symbols, resp, i, out) ==
    IF i > Len(symbols) THEN out
    ELSE LET symbol == symbols[i]
             sent == [out EXCEPT !.requested = Append(@, symbol)]
         IN  IF resp[symbol] = "429" THEN [sent EXCEPT !.rate_limited = TRUE]
             ELSE IF resp[symbol] = "403" THEN sent
             ELSE IF resp[symbol] = "ok"
             THEN FinnhubLoop(symbols, resp, i + 1, [sent EXCEPT !.bars = @ \cup {symbol}])
             ELSE IF resp[symbol] = "ok_empty"
             THEN FinnhubLoop(symbols, resp, i + 1, [sent EXCEPT !.empty = @ \cup {symbol}])
             ELSE FinnhubLoop(symbols, resp, i + 1, sent)

FinnhubFetch(symbols, resp) ==
    FinnhubLoop(symbols, resp, 1, ProviderOutput(<<>>, {}, {}, FALSE, "none"))

\* provider.fetch_daily_bars(symbols_to_fetch, days) as the chain sees it: the
\* provider's dict, or an exception whose text does or does not name a rate limit.
ProviderErrors == {"none", "rate limit", "other"}

ProviderResponses(name) == IF name = "Finnhub" THEN FinnhubResponses ELSE YahooResponses

ProviderFetchKeepingFrames(name, symbols, resp, raised) ==
    IF name = "Finnhub" THEN [FinnhubFetch(symbols, resp) EXCEPT !.raised = raised]
    ELSE [YFinanceFetch(symbols, resp) EXCEPT !.raised = raised]

ProviderFetch(name, symbols, resp, raised) ==
    IF raised # "none" THEN ProviderOutput(symbols, {}, {}, FALSE, raised)
    ELSE IF name = "Finnhub" THEN FinnhubFetch(symbols, resp)
    ELSE YFinanceFetch(symbols, resp)

\* len(results) < len(symbols_to_fetch) / 2, and the provider is Finnhub.
SuspectedThrottle(name, out, batch) ==
    /\ 2 * Cardinality(out.bars \cup out.empty) < Len(batch)
    /\ name = "Finnhub"

\* if provider_name in self.provider_cooldowns and time.time() < cooldown_until
InCooldownNever(cooldowns, name, now) == FALSE

InCooldown(cooldowns, name, now) ==
    name \in DOMAIN cooldowns /\ now < cooldowns[name]

\* provider_cooldowns after the call returned or raised.
CooldownsAfterCall(cooldowns, name, out, batch, now) ==
    IF out.raised = "rate limit" THEN Put(cooldowns, name, now + CooldownSeconds)
    ELSE IF out.raised = "none" /\ SuspectedThrottle(name, out, batch)
    THEN Put(cooldowns, name, now + CooldownSeconds)
    ELSE cooldowns

\* for symbol, df in results.items(): if not df.empty: all_results[symbol] = df
MergeKeepingEmptyFrames(all_results, out) ==
    [x \in DOMAIN all_results \cup out.bars \cup out.empty |->
        IF x \in out.bars THEN "bars"
        ELSE IF x \in out.empty THEN "empty" ELSE all_results[x]]

MergeResults(all_results, out) ==
    [x \in DOMAIN all_results \cup out.bars |->
        IF x \in out.bars THEN "bars" ELSE all_results[x]]

\* ------------------------------------------------- services/signals/signals.py
\* Normalized factor values and weights are held in whole units: a normalized
\* value v is the integer v * NormOne, a weight w the integer w * 100. Raw
\* factor values: momentum in thousandths, rsi in points, macd_histogram in
\* whole units, volume_surge in tenths.
NormOne == 3000

\* 1 / (1 + np.exp(-value * 10)) is the double 1.0 from SigmoidHigh on, 0.5 at
\* 0 and 0.0 down from -SigmoidLow (np.exp overflows to inf); it is evaluated
\* at no other value here.
SigmoidHigh == 4
SigmoidLow == 71

normalize_factor(factor_name, value) ==
    IF factor_name = "momentum"
    THEN Max(0, Min(NormOne, ((value + 500) * NormOne) \div 1000))
    ELSE IF factor_name = "rsi"
    THEN IF value < 30 THEN (8 * NormOne) \div 10 + ((30 - value) * NormOne) \div 150
         ELSE IF value > 70 THEN (2 * NormOne) \div 10 - ((value - 70) * NormOne) \div 150
         ELSE NormOne \div 2
    ELSE IF factor_name = "macd_histogram"
    THEN CASE value >= SigmoidHigh     -> NormOne
           [] value = 0                -> NormOne \div 2
           [] value <= 0 - SigmoidLow  -> 0
    ELSE IF factor_name = "volume_surge"
    THEN IF value > 20 THEN Min(NormOne, NormOne \div 2 + ((value - 10) * NormOne) \div 40)
         ELSE NormOne \div 2
    ELSE NormOne \div 2

\* _load_strategy_config without /app/configs/strategy.yaml.
DefaultFactors ==
    [momentum_12_1  |-> [weight |-> 25, enabled |-> TRUE],
     rsi_14         |-> [weight |-> 15, enabled |-> TRUE],
     macd           |-> [weight |-> 20, enabled |-> TRUE],
     volume_surge   |-> [weight |-> 15, enabled |-> TRUE],
     earnings_drift |-> [weight |-> 15, enabled |-> TRUE],
     news_sentiment |-> [weight |-> 10, enabled |-> TRUE]]

\* factor_name in weights and weights[factor_name].get('enabled', True)
Contributes(weights, factor_name) ==
    /\ factor_name \in DOMAIN weights
    /\ IF "enabled" \in DOMAIN weights[factor_name] THEN weights[factor_name].enabled
       ELSE TRUE

\* weights[factor_name].get('weight', 0)
WeightOf(weights, factor_name) ==
    IF "weight" \in DOMAIN weights[factor_name] THEN weights[factor_name].weight ELSE 0

\* The loop of calculate_composite_score over the factors named in names.
RECURSIVE WeightedTotals(_, _, _)
WeightedTotals(weights, factors, names) ==
    IF names = {} THEN [weighted_sum |-> 0, total_weight |-> 0]
    ELSE LET factor_name == CHOOSE n \in names : TRUE
             rest == WeightedTotals(weights, factors, names \ {factor_name})
         IN  IF Contributes(weights, factor_name)
             THEN [weighted_sum |-> rest.weighted_sum
                        + normalize_factor(factor_name, factors[factor_name])
                            * WeightOf(weights, factor_name),
                   total_weight |-> rest.total_weight + WeightOf(weights, factor_name)]
             ELSE rest

\* A score is the fraction num / den in units of 1 / NormOne.
Fraction(num, den) == [num |-> num, den |-> den]

calculate_composite_score_by_factor_count(weights, factors) ==
    LET totals == WeightedTotals(weights, factors, DOMAIN factors)
    IN  IF totals.total_weight > 0
        THEN Fraction(totals.weighted_sum, Cardinality(DOMAIN factors))
        ELSE Fraction(NormOne \div 2, 1)

calculate_composite_score(weights, factors) ==
    LET totals == WeightedTotals(weights, factors, DOMAIN factors)
    IN  IF totals.total_weight > 0
        THEN Fraction(totals.weighted_sum, totals.total_weight)
        ELSE Fraction(NormOne \div 2, 1)

\* The history of a symbol is the number of its PriceData rows of the last
\* 365 days, whether reading or scoring it raises, and the values the ta
\* indicators give on the whole history.
MinBars == 20
MomentumBars == 252
RsiBars == 14
MacdBars == 26
VolumeBars == 20
SellThreshold == 40

calculate_momentum(h) == IF h.bars < MomentumBars THEN 0 ELSE h.momentum

calculate_rsi(h) == IF h.bars < RsiBars THEN 50 ELSE h.rsi

calculate_macd_histogram(h) == IF h.bars < MacdBars THEN 0 ELSE h.macd_histogram

calculate_volume_surge(h) == IF h.bars < VolumeBars THEN 0 ELSE h.volume_surge

\* 'buy' if score > 0.6 else ('sell' if score < 0.4 else 'hold')
ScoreAction(score) ==
    IF score.num * 100 > BuyThreshold * NormOne * score.den THEN "buy"
    ELSE IF score.num * 100 < SellThreshold * NormOne * score.den THEN "sell"
    ELSE "hold"

QuantSignal(weights, symbol, h) ==
    LET factors == [momentum       |-> calculate_momentum(h),
                    rsi            |-> calculate_rsi(h),
                    macd_histogram |-> calculate_macd_histogram(h),
                    volume_surge   |-> calculate_volume_surge(h)]
        score   == calculate_composite_score(weights, factors)
    IN  [symbol |-> symbol, score |-> score, factors |-> factors,
         action |-> ScoreAction(score)]

\* One iteration of the first pass of generate_signals: what it appends.
SignalsForAnyHistory(weights, symbol, h) ==
    IF h.error THEN <<>> ELSE <<QuantSignal(weights, symbol, h)>>

SignalsFor(weights, symbol, h) ==
    IF h.bars < MinBars \/ h.error THEN <<>>
    ELSE <<QuantSignal(weights, symbol, h)>>

RECURSIVE SignalGenerator_generate_signals(_, _, _)
SignalGenerator_generate_signals(weights, symbols, history) ==
    IF symbols = <<>> THEN <<>>
    ELSE SignalsFor(weights, Head(symbols), history[Head(symbols)])
            \o SignalGenerator_generate_signals(weights, Tail(symbols), history)

\* ------------------------------------------- services/broker/alpaca_broker.py
\* os.getenv(name, default) on an environment given as a function from the
\* names that are set to their values.
getenv(environ, name, default) ==
    IF name \in DOMAIN environ THEN environ[name] ELSE default

\* AlpacaBroker._determine_mode
determine_mode_by_flag_alone(environ) ==
    LET mode == getenv(environ, "TRADING_MODE", "paper") IN
    IF mode = "live"
    THEN LET live_enabled == getenv(environ, "LIVE_TRADING_ENABLED", "false") = "true" IN
         IF ~live_enabled THEN "paper" ELSE mode
    ELSE mode

determine_mode(environ) ==
    LET mode == getenv(environ, "TRADING_MODE", "paper") IN
    IF mode = "live"
    THEN LET live_enabled == getenv(environ, "LIVE_TRADING_ENABLED", "false") = "true"
             live_phrase == getenv(environ, "LIVE_CONFIRM_PHRASE", "") IN
         IF ~(live_enabled /\ live_phrase = "I_UNDERSTAND_THE_RISKS")
         THEN "paper"
         ELSE mode
    ELSE mode

\* AlpacaBroker._get_client: the paper flag handed to TradingClient and the
\* endpoint the SDK then uses.
get_client(mode) ==
    LET paper == mode # "live" IN
    [paper |-> paper,
     endpoint |-> IF paper THEN "https://paper-api.alpaca.markets"
                  ELSE "https://api.alpaca.markets"]

\* ------------------------------------------------------------------ inputs
\* Background tasks that can each hold one call of TradingPipeline.run.
Workers == {1, 2}

Accounts ==
    { [equity |-> 100000, last_equity |-> 100000],
      [equity |-> 97000,  last_equity |-> 100000] }

Position(sym, qty, mv) == [symbol |-> sym, qty |-> qty, market_value |-> mv]

PositionInputs ==
    { <<>>,
      <<Position("XXX", 300, 30000), Position("YYY", 0 - 270, 0 - 27000)>> }

Signal(sym, score) == [symbol |-> sym, score |-> score, action |-> ActionOf(score)]

\* One list with a hold signal and two buy signals, lowest score first.
SignalInputs ==
    { <<Signal("AAA", 50), Signal("BBB", 70), Signal("CCC", 90)>> }

LatestCloseInputs ==
    { [sym \in {"AAA", "BBB", "CCC"} |-> 100] }

TRADING_MODE == "paper"

\* ------------------------------------------------------------------- state
VARIABLES
    GLOBAL_KILL_SWITCH,   \* redis key: "true" / "false"
    auto_execute,         \* AUTO_EXECUTE == 'true'
    trade_plans,          \* table trade_plans, row id = index
    broker_orders,        \* requests accepted by client.submit_order
    started,              \* number of runs begun
    run_no,               \* per worker: which run it holds (0: none yet)
    pc,                   \* per worker: stage about to execute
    dry_run,              \* per worker: run(dry_run=...)
    news_data,            \* per worker: status of the dict returned by _ingest_news
    market_data,          \* per worker: status of the dict returned by _fetch_market_data
    signals,              \* per worker: list returned by _generate_signals
    trade_plan,           \* per worker: the trade_plan dict
    snapshot,             \* per worker: account and positions read by the risk stage
    plan_id,              \* per worker: id returned by _save_trade_plan, 0 before
    results,              \* per worker: results dict of _execute_trades
    order_idx,            \* per worker: position of the loop of _execute_trades
    stages,               \* per worker: stages entered so far
    result,               \* per worker: value returned by run()
    xl,                   \* a single check_exposure_limits call and its result
    chain,                \* a DataProviderChain and the fetch_daily_bars call it runs
    fn,                   \* a single call of a function of RiskManager or SignalGenerator
    ingest,               \* a MarketDataIngestor and the table price_data
    alpha                 \* an AlphaVantageProvider, its usage file and the calendar

vars == <<GLOBAL_KILL_SWITCH, auto_execute, trade_plans, broker_orders, started,
          run_no, pc, dry_run, news_data, market_data, signals, trade_plan, snapshot,
          plan_id, results, order_idx, stages, result, xl, chain, fn,
          ingest, alpha>>

shared == <<GLOBAL_KILL_SWITCH, auto_execute, trade_plans, broker_orders>>

NoSnapshot == [taken |-> FALSE, account |-> [equity |-> 0, last_equity |-> 0],
               positions |-> <<>>]
NoResults == [submitted |-> <<>>, failed |-> <<>>, total |-> 0]
NoResult == [status |-> "none", reason |-> "", plan_id |-> 0, orders |-> 0,
             executed |-> FALSE]
XlIdle == [orders |-> <<>>, positions |-> <<>>, equity |-> 0,
           approved |-> <<>>, violations |-> <<>>, done |-> FALSE]

NoCall == [provider |-> "", batch |-> <<>>, time |-> 0,
           out |-> ProviderOutput(<<>>, {}, {}, FALSE, "none")]
ChainIdle == [at |-> "idle", now |-> 0, ticks |-> 0, fetches |-> 0,
              available |-> [i \in 1..Len(ProviderNames) |-> TRUE],
              provider_cooldowns |-> EmptyDict,
              symbols |-> {}, all_results |-> EmptyDict, remaining_symbols |-> {},
              idx |-> 0, calls |-> 0, last_call |-> NoCall, called |-> <<>>,
              served |-> {},
              returned |-> [results |-> EmptyDict], warned |-> {}]

FnIdle == [name |-> "", args |-> <<>>, out |-> <<>>, done |-> FALSE]

IngestIdle == [alpaca_client |-> FALSE, price_data |-> {}, ingests |-> 0,
               last |-> [op |-> "", outcomes |-> <<>>, asked_chain |-> FALSE,
                         bars |-> {}, raised |-> FALSE]]

\* requests: the calls of fetch_enhanced_data and get_news_sentiment made so
\* far; sent: the calls of requests.get made on the date today.
\* usage_file with date 0 and no calls: there is no file.
AlphaIdle == [daily_calls_made |-> 0, usage_file |-> [date |-> 0, calls |-> 0], today |-> 1,
              requests |-> 0, sent |-> 0, last |-> ""]

Terminal == {"halted", "error", "done"}

Init ==
    /\ GLOBAL_KILL_SWITCH = "false"
    /\ auto_execute \in BOOLEAN
    /\ trade_plans = <<>>
    /\ broker_orders = <<>>
    /\ started = 0
    /\ run_no = [w \in Workers |-> 0]
    /\ pc = [w \in Workers |-> "idle"]
    /\ dry_run = [w \in Workers |-> FALSE]
    /\ news_data = [w \in Workers |-> "none"]
    /\ market_data = [w \in Workers |-> "none"]
    /\ signals = [w \in Workers |-> <<>>]
    /\ trade_plan = [w \in Workers |-> EmptyPlan]
    /\ snapshot = [w \in Workers |-> NoSnapshot]
    /\ plan_id = [w \in Workers |-> 0]
    /\ results = [w \in Workers |-> NoResults]
    /\ order_idx = [w \in Workers |-> 0]
    /\ stages = [w \in Workers |-> {}]
    /\ result = [w \in Workers |-> NoResult]
    /\ xl = XlIdle
    /\ chain = ChainIdle
    /\ fn = FnIdle
    /\ ingest = IngestIdle
    /\ alpha = AlphaIdle

\* ----------------------------------------------------------------- actions
\* run() returns res: its locals are gone, the returned value stays.
Return(w, at, res) ==
    /\ pc' = [pc EXCEPT ![w] = at]
    /\ result' = [result EXCEPT ![w] = res]
    /\ dry_run' = [dry_run EXCEPT ![w] = FALSE]
    /\ news_data' = [news_data EXCEPT ![w] = "none"]
    /\ market_data' = [market_data EXCEPT ![w] = "none"]
    /\ signals' = [signals EXCEPT ![w] = <<>>]
    /\ trade_plan' = [trade_plan EXCEPT ![w] = EmptyPlan]
    /\ snapshot' = [snapshot EXCEPT ![w] = NoSnapshot]
    /\ plan_id' = [plan_id EXCEPT ![w] = 0]
    /\ results' = [results EXCEPT ![w] = NoResults]
    /\ order_idx' = [order_idx EXCEPT ![w] = 0]

\* except Exception as e: return {"status": "error", "error": str(e)}
ReturnErrorPropagating(w, e) == Return(w, "error", NoResult)

ReturnError(w, e) ==
    Return(w, "error", [NoResult EXCEPT !.status = "error", !.reason = e])

Enter(w, stage) == stages' = [stages EXCEPT ![w] = @ \cup {stage}]

Goto(w, next) == pc' = [pc EXCEPT ![w] = next]

\* main.py run_pipeline: 403 while the kill switch is active, else the run is
\* queued as a background task on a free worker. Runs do not overlap here: a
\* run is started once no other run is in flight.
Free(w) == pc[w] \in {"idle"} \cup Terminal

RunPipeline(w, dry) ==
    /\ started < MaxRuns
    /\ \A v \in Workers : Free(v)
    /\ \A v \in Workers : v >= w
    /\ GLOBAL_KILL_SWITCH # "true"
    /\ started' = started + 1
    /\ run_no' = [run_no EXCEPT ![w] = started + 1]
    /\ Goto(w, "breaker")
    /\ dry_run' = [dry_run EXCEPT ![w] = dry]
    /\ stages' = [stages EXCEPT ![w] = {}]
    /\ result' = [result EXCEPT ![w] = NoResult]
    /\ UNCHANGED <<shared, news_data, market_data, signals, trade_plan, snapshot,
                   plan_id, results, order_idx, xl, chain, fn,
                   ingest, alpha>>

\* Step 1. store_ok = FALSE: the redis read raises. account_ok = FALSE:
\* broker.get_account raises.
CheckCircuitBreakers(w, store_ok, account_ok, account) ==
    /\ pc[w] = "breaker"
    /\ Enter(w, "breaker")
    /\ IF ~store_ok
       THEN /\ ReturnError(w, "redis")
            /\ UNCHANGED GLOBAL_KILL_SWITCH
       ELSE IF GLOBAL_KILL_SWITCH # "true" /\ ~account_ok
       THEN /\ ReturnError(w, "get_account")
            /\ UNCHANGED GLOBAL_KILL_SWITCH
       ELSE LET verdict == pipeline_check_circuit_breakers(GLOBAL_KILL_SWITCH, account) IN
            /\ GLOBAL_KILL_SWITCH' = verdict.kill_switch
            /\ IF verdict.halt
               THEN Return(w, "halted", [NoResult EXCEPT !.status = "halted",
                                            !.reason = "Circuit breaker triggered"])
               ELSE /\ Goto(w, "news")
                    /\ UNCHANGED <<dry_run, news_data, market_data, signals, trade_plan,
                                   snapshot, plan_id, results, order_idx, result>>
    /\ UNCHANGED <<auto_execute, trade_plans, broker_orders, started, run_no, xl, chain, fn,
                   ingest, alpha>>

\* Steps 2 and 3: _ingest_news and _fetch_market_data catch their own
\* exceptions; news_data and market_data are not read by a later step.
IngestNewsAborting(w, ok) ==
    /\ pc[w] = "news"
    /\ Enter(w, "news")
    /\ IF ok
       THEN /\ news_data' = [news_data EXCEPT ![w] = ingest_news(ok)]
            /\ Goto(w, "market")
            /\ UNCHANGED <<dry_run, market_data, signals, trade_plan, snapshot,
                           plan_id, results, order_idx, result>>
       ELSE ReturnError(w, "news")
    /\ UNCHANGED <<shared, started, run_no, xl, chain, fn,
                   ingest, alpha>>

IngestNews(w, ok) ==
    /\ pc[w] = "news"
    /\ Enter(w, "news")
    /\ news_data' = [news_data EXCEPT ![w] = ingest_news(ok)]
    /\ Goto(w, "market")
    /\ UNCHANGED <<shared, started, run_no, dry_run, market_data, signals, trade_plan,
                   snapshot, plan_id, results, order_idx, result, xl, chain, fn,
                   ingest, alpha>>

FetchMarketData(w, ok) ==
    /\ pc[w] = "market"
    /\ Enter(w, "market")
    /\ market_data' = [market_data EXCEPT ![w] = fetch_market_data(ok)]
    /\ Goto(w, "signals")
    /\ UNCHANGED <<shared, started, run_no, dry_run, news_data, signals, trade_plan,
                   snapshot, plan_id, results, order_idx, result, xl, chain, fn,
                   ingest, alpha>>

\* Step 4: generate_signals returns generated, or raises and [] is returned.
GenerateSignals(w, ok, generated) ==
    /\ pc[w] = "signals"
    /\ Enter(w, "signals")
    /\ signals' = [signals EXCEPT ![w] = generate_signals(ok, generated)]
    /\ Goto(w, "plan")
    /\ UNCHANGED <<shared, started, run_no, dry_run, news_data, market_data, trade_plan,
                   snapshot, plan_id, results, order_idx, result, xl, chain, fn,
                   ingest, alpha>>

CreateTradePlan(w) ==
    /\ pc[w] = "plan"
    /\ Enter(w, "plan")
    /\ trade_plan' = [trade_plan EXCEPT ![w] = create_trade_plan(signals[w])]
    /\ Goto(w, "risk")
    /\ UNCHANGED <<shared, started, run_no, dry_run, news_data, market_data, signals,
                   snapshot, plan_id, results, order_idx, result, xl, chain, fn,
                   ingest, alpha>>

\* Step 5. account and positions are what the broker returns now; fault names
\* the call that raises.
ApplyRiskManagement(w, account, positions_, latest_close, fault) ==
    /\ pc[w] = "risk"
    /\ Enter(w, "risk")
    /\ fault = "optimize_portfolio" => trade_plan[w].signals # <<>>
    /\ trade_plan' = [trade_plan EXCEPT ![w] =
           apply_risk_management(@, account, positions_, latest_close, fault)]
    /\ snapshot' = [snapshot EXCEPT ![w] =
           IF fault \in {"get_account", "get_positions"} THEN NoSnapshot
           ELSE [taken |-> TRUE, account |-> account, positions |-> positions_]]
    /\ Goto(w, "save")
    /\ UNCHANGED <<shared, started, run_no, dry_run, news_data, market_data, signals,
                   plan_id, results, order_idx, result, xl, chain, fn,
                   ingest, alpha>>

\* Step 6, then the gate of step 7. commit_ok = FALSE: the session raises and
\* the exception reaches run().
SaveTradePlan(w, commit_ok) ==
    /\ pc[w] = "save"
    /\ Enter(w, "save")
    /\ IF ~commit_ok
       THEN /\ ReturnError(w, "commit")
            /\ UNCHANGED trade_plans
       ELSE /\ trade_plans' = add_plan(trade_plans,
                                       TradePlanRow(trade_plan[w], TRADING_MODE, run_no[w]))
            /\ plan_id' = [plan_id EXCEPT ![w] = Len(trade_plans) + 1]
            /\ IF ExecuteGate(auto_execute, dry_run[w])
               THEN /\ Goto(w, "execute")
                    /\ results' = [results EXCEPT ![w] =
                           [NoResults EXCEPT !.total = Len(trade_plan[w].orders)]]
                    /\ order_idx' = [order_idx EXCEPT ![w] = 1]
               ELSE /\ Goto(w, "report")
                    /\ UNCHANGED <<results, order_idx>>
            /\ UNCHANGED <<dry_run, news_data, market_data, signals, trade_plan, snapshot,
                           result>>
    /\ UNCHANGED <<GLOBAL_KILL_SWITCH, auto_execute, broker_orders, started, run_no, xl, chain, fn,
                   ingest, alpha>>

\* One iteration of the loop of _execute_trades: a call of broker.place_order.
PlaceOrder(w, outcome) ==
    /\ pc[w] = "execute"
    /\ order_idx[w] <= Len(trade_plan[w].orders)
    /\ outcome \in PlaceOrderOutcomes(GLOBAL_KILL_SWITCH)
    /\ Enter(w, "execute")
    /\ LET order == trade_plan[w].orders[order_idx[w]] IN
       /\ broker_orders' =
            IF ReachesBroker(outcome)
            THEN Append(broker_orders,
                        [symbol |-> order.symbol, side |-> order.side,
                         qty |-> order.qty, order_type |-> order.order_type,
                         plan_id |-> plan_id[w], run |-> run_no[w]])
            ELSE broker_orders
       /\ results' = [results EXCEPT ![w] = RecordOutcome(@, order, outcome)]
    /\ order_idx' = [order_idx EXCEPT ![w] = @ + 1]
    /\ UNCHANGED <<GLOBAL_KILL_SWITCH, auto_execute, trade_plans, started, run_no, pc,
                   dry_run, news_data, market_data, signals, trade_plan, snapshot, plan_id,
                   result, xl, chain, fn,
                   ingest, alpha>>

\* After the loop: plan.executed = len(results['submitted']) > 0.
FinishExecute(w, commit_ok) ==
    /\ pc[w] = "execute"
    /\ order_idx[w] > Len(trade_plan[w].orders)
    /\ Enter(w, "execute")
    /\ IF ~commit_ok
       THEN /\ ReturnError(w, "commit")
            /\ UNCHANGED trade_plans
       ELSE /\ trade_plans' = set_executed(trade_plans, plan_id[w], results[w].submitted)
            /\ Goto(w, "report")
            /\ UNCHANGED <<dry_run, news_data, market_data, signals, trade_plan, snapshot,
                           plan_id, results, order_idx, result>>
    /\ UNCHANGED <<GLOBAL_KILL_SWITCH, auto_execute, broker_orders, started, run_no, xl, chain, fn,
                   ingest, alpha>>

\* Step 8 and the return of run(); an exception of the reporter is swallowed.
GenerateReports(w, ok) ==
    /\ pc[w] = "report"
    /\ Enter(w, "report")
    /\ Return(w, "done",
              [status   |-> "completed",
               reason   |-> "",
               plan_id  |-> plan_id[w],
               orders   |-> Len(trade_plan[w].orders),
               executed |-> auto_execute /\ ~dry_run[w]])
    /\ UNCHANGED <<shared, started, run_no, xl, chain, fn,
                   ingest, alpha>>

\* main.py /control/pause and /control/resume.
pause_trading ==
    /\ GLOBAL_KILL_SWITCH' = "true"
    /\ UNCHANGED <<auto_execute, trade_plans, broker_orders, started, run_no, pc, dry_run,
                   news_data, market_data, signals, trade_plan, snapshot, plan_id, results,
                   order_idx, stages, result, xl, chain, fn,
                   ingest, alpha>>

resume_trading ==
    /\ GLOBAL_KILL_SWITCH' = "false"
    /\ UNCHANGED <<auto_execute, trade_plans, broker_orders, started, run_no, pc, dry_run,
                   news_data, market_data, signals, trade_plan, snapshot, plan_id, results,
                   order_idx, stages, result, xl, chain, fn,
                   ingest, alpha>>

Next ==
    \/ \E w \in Workers, dry \in BOOLEAN : RunPipeline(w, dry)
    \/ \E w \in Workers, store_ok \in BOOLEAN, account_ok \in BOOLEAN, account \in Accounts :
           CheckCircuitBreakers(w, store_ok, account_ok, account)
    \/ \E w \in Workers, ok \in BOOLEAN : IngestNews(w, ok)
    \/ \E w \in Workers, ok \in BOOLEAN : FetchMarketData(w, ok)
    \/ \E w \in Workers, ok \in BOOLEAN, generated \in SignalInputs :
           GenerateSignals(w, ok, generated)
    \/ \E w \in Workers : CreateTradePlan(w)
    \/ \E w \in Workers, account \in Accounts, positions_ \in PositionInputs,
          latest_close \in LatestCloseInputs, fault \in RiskFaults :
           ApplyRiskManagement(w, account, positions_, latest_close, fault)
    \/ \E w \in Workers, commit_ok \in BOOLEAN : SaveTradePlan(w, commit_ok)
    \/ \E w \in Workers, outcome \in {"accepted", "rejected", "db_error", "paused"} :
           PlaceOrder(w, outcome)
    \/ \E w \in Workers, commit_ok \in BOOLEAN : FinishExecute(w, commit_ok)
    \/ \E w \in Workers, ok \in BOOLEAN : GenerateReports(w, ok)
    \/ pause_trading
    \/ resume_trading

Spec == Init /\ [][Next]_vars

\* ------------------------------------------- check_exposure_limits on its own
OrderKinds ==
    { [side |-> "buy",  qty |-> 10, price |-> 100],
      [side |-> "buy",  qty |-> 20, price |-> 100],
      [side |-> "sell", qty |-> 20, price |-> 100],
      [side |-> "buy",  qty |-> 30, price |-> 100] }

SymbolNames == <<"AAA", "BBB", "CCC", "DDD", "EEE">>

ProposedOrder(i, k) ==
    [symbol |-> SymbolNames[i], side |-> k.side, qty |-> k.qty,
     order_type |-> "market", price |-> k.price, stop_loss |-> 0,
     take_profit |-> 0, confidence |-> 0]

ProposedOrderLists ==
    UNION { { [i \in 1..n |-> ProposedOrder(i, f[i])] : f \in [1..n -> OrderKinds] }
            : n \in 0..MaxOrders }

ExposurePositionInputs ==
    PositionInputs \cup { <<Position("XXX", 380, 38000)>> }

InitExposure ==
    /\ GLOBAL_KILL_SWITCH = "false"
    /\ auto_execute = TRUE
    /\ trade_plans = <<>>
    /\ broker_orders = <<>>
    /\ started = 0
    /\ run_no = [w \in Workers |-> 0]
    /\ pc = [w \in Workers |-> "idle"]
    /\ dry_run = [w \in Workers |-> FALSE]
    /\ news_data = [w \in Workers |-> "none"]
    /\ market_data = [w \in Workers |-> "none"]
    /\ signals = [w \in Workers |-> <<>>]
    /\ trade_plan = [w \in Workers |-> EmptyPlan]
    /\ snapshot = [w \in Workers |-> NoSnapshot]
    /\ plan_id = [w \in Workers |-> 0]
    /\ results = [w \in Workers |-> NoResults]
    /\ order_idx = [w \in Workers |-> 0]
    /\ stages = [w \in Workers |-> {}]
    /\ result = [w \in Workers |-> NoResult]
    /\ \E os \in ProposedOrderLists, ps \in ExposurePositionInputs :
          xl = [XlIdle EXCEPT !.orders = os, !.positions = ps, !.equity = 100000]
    /\ chain = ChainIdle
    /\ fn = FnIdle
    /\ ingest = IngestIdle
    /\ alpha = AlphaIdle

CheckExposureLimits ==
    /\ ~xl.done
    /\ LET out == check_exposure_limits(xl.orders, xl.positions, xl.equity) IN
       xl' = [xl EXCEPT !.approved = out.approved, !.violations = out.violations,
                        !.done = TRUE]
    /\ UNCHANGED <<GLOBAL_KILL_SWITCH, auto_execute, trade_plans, broker_orders,
                   started, run_no, pc, dry_run, news_data, market_data, signals,
                   trade_plan, snapshot, plan_id, results, order_idx, stages, result, chain, fn,
                   ingest, alpha>>

NextExposure == CheckExposureLimits

SpecExposure == InitExposure /\ [][NextExposure]_vars

\* -------------------------------- DataProviderChain.fetch_daily_bars on its own
ChainSymbols == {"AAA", "BBB"}

\* Every list a provider can be handed.
Batches == UNION { Orderings(S) : S \in SUBSET ChainSymbols }

pipeline == <<GLOBAL_KILL_SWITCH, auto_execute, trade_plans, broker_orders, started,
              run_no, pc, dry_run, news_data, market_data, signals, trade_plan,
              snapshot, plan_id, results, order_idx, stages, result, xl, fn,
              ingest, alpha>>

InitChain ==
    /\ GLOBAL_KILL_SWITCH = "false"
    /\ auto_execute = TRUE
    /\ trade_plans = <<>>
    /\ broker_orders = <<>>
    /\ started = 0
    /\ run_no = [w \in Workers |-> 0]
    /\ pc = [w \in Workers |-> "idle"]
    /\ dry_run = [w \in Workers |-> FALSE]
    /\ news_data = [w \in Workers |-> "none"]
    /\ market_data = [w \in Workers |-> "none"]
    /\ signals = [w \in Workers |-> <<>>]
    /\ trade_plan = [w \in Workers |-> EmptyPlan]
    /\ snapshot = [w \in Workers |-> NoSnapshot]
    /\ plan_id = [w \in Workers |-> 0]
    /\ results = [w \in Workers |-> NoResults]
    /\ order_idx = [w \in Workers |-> 0]
    /\ stages = [w \in Workers |-> {}]
    /\ result = [w \in Workers |-> NoResult]
    /\ xl = XlIdle
    /\ \E a \in [1..Len(ProviderNames) -> BOOLEAN] :
          chain = [ChainIdle EXCEPT !.available = a]
    /\ fn = FnIdle
    /\ ingest = IngestIdle
    /\ alpha = AlphaIdle

\* DataProviderChain() is constructed while no fetch is running: every
\* MarketDataIngestor() builds its own chain, and run() builds a
\* MarketDataIngestor for each pipeline run. The new object starts with
\* provider_cooldowns = {}; the configuration of the providers is the same.
NewChain ==
    /\ chain.at \in {"idle", "returned"}
    /\ chain' = [chain EXCEPT !.provider_cooldowns = EmptyDict]
    /\ UNCHANGED pipeline

\* fetch_daily_bars(symbols) is called: lines 324-325.
FetchDailyBars(symbols) ==
    /\ chain.at \in {"idle", "returned"}
    /\ chain.fetches < MaxFetches
    /\ chain' = [chain EXCEPT !.at = "loop", !.fetches = @ + 1,
                              !.symbols = symbols, !.all_results = EmptyDict,
                              !.remaining_symbols = symbols, !.idx = 1,
                              !.calls = 0, !.last_call = NoCall, !.called = <<>>,
                              !.served = {},
                              !.returned = [results |-> EmptyDict], !.warned = {}]
    /\ UNCHANGED pipeline

\* One iteration of the loop over self.providers whose provider is skipped:
\* it is in cooldown, or its cooldown has expired and is removed but the
\* provider is not configured.
SkipProvider ==
    /\ chain.at = "loop"
    /\ chain.idx <= Len(ProviderNames)
    /\ chain.remaining_symbols # {}
    /\ LET name == ProviderNames[chain.idx]
           held == name \in DOMAIN chain.provider_cooldowns
           cooling == InCooldown(chain.provider_cooldowns, name, chain.now)
       IN  /\ cooling \/ ~chain.available[chain.idx]
           /\ chain' = [chain EXCEPT
                  !.provider_cooldowns = IF held /\ ~cooling THEN Remove(@, name) ELSE @,
                  !.idx = @ + 1]
    /\ UNCHANGED pipeline

\* One iteration whose provider is called with batch = list(remaining_symbols);
\* resp is what the provider's source answers per symbol, raised the exception
\* that leaves provider.fetch_daily_bars.
TryProvider(batch, resp, raised) ==
    /\ chain.at = "loop"
    /\ chain.idx <= Len(ProviderNames)
    /\ chain.remaining_symbols # {}
    /\ batch \in Orderings(chain.remaining_symbols)
    /\ LET name == ProviderNames[chain.idx]
           held == name \in DOMAIN chain.provider_cooldowns
           cooling == InCooldown(chain.provider_cooldowns, name, chain.now)
           expired == IF held THEN Remove(chain.provider_cooldowns, name)
                      ELSE chain.provider_cooldowns
           out == ProviderFetch(name, batch, resp, raised)
           merged == MergeResults(chain.all_results, out)
       IN  /\ ~cooling
           /\ chain.available[chain.idx]
           /\ \A symbol \in ChainSymbols : resp[symbol] \in ProviderResponses(name)
           /\ chain' = [chain EXCEPT
                  !.provider_cooldowns =
                      CooldownsAfterCall(expired, name, out, batch, chain.now),
                  !.all_results = merged,
                  !.remaining_symbols = @ \ DOMAIN merged,
                  !.idx = @ + 1,
                  !.calls = @ + 1,
                  !.last_call = [provider |-> name, batch |-> batch,
                                 time |-> chain.now, out |-> out],
                  !.called = Append(@, [provider |-> name, raised |-> raised]),
                  !.served = @ \cup out.bars]
    /\ UNCHANGED pipeline

\* The loop is over (no symbol remains or no provider is left): the warning
\* of line 403 and the return of line 405.
ReturnResults ==
    /\ chain.at = "loop"
    /\ chain.idx > Len(ProviderNames) \/ chain.remaining_symbols = {}
    /\ chain' = [chain EXCEPT !.at = "returned",
                              !.returned = [results |-> chain.all_results],
                              !.warned = chain.remaining_symbols]
    /\ UNCHANGED pipeline

\* time.time() moves on, during a fetch (time.sleep) or between two fetches.
Tick ==
    /\ chain.ticks < MaxTicks
    /\ chain' = [chain EXCEPT !.ticks = @ + 1, !.now = @ + CooldownSeconds \div 2]
    /\ UNCHANGED pipeline

NextChain ==
    \/ NewChain
    \/ \E symbols \in SUBSET ChainSymbols : FetchDailyBars(symbols)
    \/ SkipProvider
    \/ \E batch \in Batches,
          resp \in [ChainSymbols -> YahooResponses \cup FinnhubResponses],
          raised \in ProviderErrors :
           TryProvider(batch, resp, raised)
    \/ ReturnResults
    \/ Tick

SpecChain == InitChain /\ [][NextChain]_vars

\* ------------------------------------ single calls of RiskManager and
\* ------------------------------------ SignalGenerator functions on their own
others == <<GLOBAL_KILL_SWITCH, auto_execute, trade_plans, broker_orders, started,
            run_no, pc, dry_run, news_data, market_data, signals, trade_plan,
            snapshot, plan_id, results, order_idx, stages, result, xl, chain,
            ingest, alpha>>

Call(name, args) == [name |-> name, args |-> args, out |-> <<>>, done |-> FALSE]

\* calculate_position_size(symbol, signal_strength, account_equity, current_price):
\* strength in percent, equity and price in dollars.
PositionSizeCalls ==
    { Call("calculate_position_size",
           [signal_strength |-> s, account_equity |-> e, current_price |-> p]) :
        s \in {0, 50, 80, 100}, e \in {1000, 100000, 10000000},
        p \in {10, 100, 3000, 60000} }

\* check_circuit_breakers(account_data)
CircuitBreakerCalls ==
    { Call("check_circuit_breakers", [equity |-> a[1], last_equity |-> a[2]]) :
        a \in { <<100000, 100000>>, <<102000, 100000>>, <<98000, 100000>>,
                <<97999, 100000>>, <<97000, 100000>>, <<0, 100000>>,
                <<100000, 0>>, <<100000, 0 - 100>> } }

\* strategy_config['factors'] as a strategy.yaml can give it.
WeightConfigs ==
    { DefaultFactors,
      [momentum       |-> [weight |-> 25, enabled |-> TRUE],
       rsi            |-> [weight |-> 15, enabled |-> TRUE],
       macd_histogram |-> [weight |-> 20, enabled |-> TRUE],
       volume_surge   |-> [weight |-> 15, enabled |-> TRUE]],
      [momentum       |-> [weight |-> 25, enabled |-> FALSE],
       rsi            |-> [weight |-> 15, enabled |-> TRUE],
       macd_histogram |-> [weight |-> 20],
       volume_surge   |-> [enabled |-> TRUE]],
      [momentum       |-> [weight |-> 25, enabled |-> FALSE],
       rsi            |-> [weight |-> 15, enabled |-> FALSE],
       macd_histogram |-> [weight |-> 20, enabled |-> FALSE],
       volume_surge   |-> [weight |-> 15, enabled |-> FALSE]],
      [momentum       |-> [weight |-> 0, enabled |-> TRUE],
       rsi            |-> [weight |-> 0, enabled |-> TRUE]],
      [k \in {} |-> 0] }

\* Raw factor values as generate_signals computes them, and one dict under
\* the names of the default configuration.
FactorDicts ==
    { [momentum |-> m, rsi |-> r, macd_histogram |-> h, volume_surge |-> v] :
        m \in {0 - 600, 0, 300}, r \in {15, 50, 85},
        h \in {0 - 100, 0, 4}, v \in {10, 30} }
    \cup { [momentum_12_1 |-> 300, rsi_14 |-> 15], [k \in {} |-> 0] }

CompositeScoreCalls ==
    { Call("calculate_composite_score", [weights |-> w, factors |-> f]) :
        w \in WeightConfigs, f \in FactorDicts }

\* Histories of steadily rising closes: positive momentum, an RSI of 100 (no
\* down day), a MACD histogram of 0; the last volume is the 20-day mean or
\* three times it.
RisingHistories ==
    { [bars |-> b, error |-> e, momentum |-> 300, rsi |-> 100, macd_histogram |-> 0,
       volume_surge |-> v] :
        b \in {0, 19, 20, 300}, e \in BOOLEAN, v \in {10, 30} }

GenerateSignalsCalls ==
    { Call("generate_signals",
           [weights |-> w, symbols |-> <<"AAA", "BBB">>, history |-> h]) :
        w \in {DefaultFactors}, h \in [{"AAA", "BBB"} -> RisingHistories] }

\* optimize_portfolio(signals, account_data): more buy signals than
\* max_positions, lowest score first or all with one score, and a short list
\* of buy, hold and sell signals.
PortfolioSymbols ==
    <<"S01", "S02", "S03", "S04", "S05", "S06", "S07", "S08", "S09", "S10", "S11",
      "S12", "S13", "S14", "S15", "S16", "S17", "S18", "S19", "S20", "S21", "S22">>

RisingBuySignals ==
    [i \in 1..Len(PortfolioSymbols) |-> Signal(PortfolioSymbols[i], BuyThreshold + i)]

TiedBuySignals ==
    [i \in 1..Len(PortfolioSymbols) |-> Signal(PortfolioSymbols[i], 70)]

MixedSignals ==
    <<Signal("S01", 50), Signal("S02", 90), Signal("S03", 30), Signal("S04", 70),
      Signal("S05", 65)>>

\* The latest close of every symbol; NoPrice where PriceData has no row.
PortfolioCloses ==
    { [sym \in { PortfolioSymbols[i] : i \in 1..Len(PortfolioSymbols) } |-> p] :
        p \in {10, 100, 60000} }
    \cup { [sym \in { PortfolioSymbols[i] : i \in 1..Len(PortfolioSymbols) } |->
               IF sym \in {"S02", "S22"} THEN NoPrice ELSE 100] }

OptimizePortfolioCalls ==
    { Call("optimize_portfolio",
           [signals |-> l, account_data |-> [equity |-> e, last_equity |-> e],
            latest_close |-> c]) :
        l \in {<<>>, RisingBuySignals, TiedBuySignals, MixedSignals},
        e \in {1000, 100000, 10000000}, c \in PortfolioCloses }

\* The environments of AlpacaBroker(): each of the three variables is unset
\* (value "unset" below) or holds one of a few values.
Environments ==
    { [n \in { x \in {"TRADING_MODE", "LIVE_TRADING_ENABLED", "LIVE_CONFIRM_PHRASE"} :
                  v[x] # "unset" } |-> v[n]] :
        v \in [TRADING_MODE : {"unset", "paper", "live", "LIVE", "sandbox"},
               LIVE_TRADING_ENABLED : {"unset", "true", "false", "True", "1"},
               LIVE_CONFIRM_PHRASE : {"unset", "I_UNDERSTAND_THE_RISKS", "",
                                      "i_understand_the_risks", "yes"}] }

FnCalls ==
    PositionSizeCalls \cup CircuitBreakerCalls \cup CompositeScoreCalls
        \cup GenerateSignalsCalls \cup OptimizePortfolioCalls
        \cup { Call("AlpacaBroker", environ) : environ \in Environments }

InitFn ==
    /\ GLOBAL_KILL_SWITCH = "false"
    /\ auto_execute = TRUE
    /\ trade_plans = <<>>
    /\ broker_orders = <<>>
    /\ started = 0
    /\ run_no = [w \in Workers |-> 0]
    /\ pc = [w \in Workers |-> "idle"]
    /\ dry_run = [w \in Workers |-> FALSE]
    /\ news_data = [w \in Workers |-> "none"]
    /\ market_data = [w \in Workers |-> "none"]
    /\ signals = [w \in Workers |-> <<>>]
    /\ trade_plan = [w \in Workers |-> EmptyPlan]
    /\ snapshot = [w \in Workers |-> NoSnapshot]
    /\ plan_id = [w \in Workers |-> 0]
    /\ results = [w \in Workers |-> NoResults]
    /\ order_idx = [w \in Workers |-> 0]
    /\ stages = [w \in Workers |-> {}]
    /\ result = [w \in Workers |-> NoResult]
    /\ xl = XlIdle
    /\ chain = ChainIdle
    /\ fn \in FnCalls
    /\ ingest = IngestIdle
    /\ alpha = AlphaIdle

Returns(name, out) ==
    /\ fn.name = name
    /\ ~fn.done
    /\ fn' = [fn EXCEPT !.out = out, !.done = TRUE]
    /\ UNCHANGED others

CallCalculatePositionSize ==
    Returns("calculate_position_size",
            calculate_position_size(fn.args.signal_strength, fn.args.account_equity,
                                    fn.args.current_price))

CallCheckCircuitBreakers ==
    Returns("check_circuit_breakers", check_circuit_breakers(fn.args))

CallCalculateCompositeScore ==
    Returns("calculate_composite_score",
            calculate_composite_score(fn.args.weights, fn.args.factors))

CallGenerateSignals ==
    Returns("generate_signals",
            SignalGenerator_generate_signals(fn.args.weights, fn.args.symbols,
                                             fn.args.history))

CallOptimizePortfolio ==
    Returns("optimize_portfolio",
            optimize_portfolio(fn.args.signals, fn.args.account_data,
                               fn.args.latest_close))

CallAlpacaBroker ==
    Returns("AlpacaBroker", [mode |-> determine_mode(fn.args),
                             client |-> get_client(determine_mode(fn.args))])

NextFn ==
    \/ CallAlpacaBroker
    \/ CallCalculatePositionSize
    \/ CallCheckCircuitBreakers
    \/ CallCalculateCompositeScore
    \/ CallGenerateSignals
    \/ CallOptimizePortfolio

SpecFn == InitFn /\ [][NextFn]_vars

\* --------------------------- MarketDataIngestor and the table price_data
\* The table is a set of rows; a bar read from a source carries the number of
\* the ingest that read it in place of its prices.
AlpacaBatchSize == 5

IngestSymbols == <<"AAA", "BBB", "CCC", "DDD", "EEE", "FFF">>

\* Every bar is of the trading day 2024-01-02.
Bar(symbol, source, n) == [symbol |-> symbol, date |-> 20240102, source |-> source, close |-> n]

SameKey(row, bar) == row.symbol = bar.symbol /\ row.date = bar.date

\* _save_price_bar and the loop of the fallback branch: query the row of
\* (symbol, date); add the bar if there is none, else overwrite its values.
SavePriceBar(rows, bar) ==
    IF \E existing \in rows : SameKey(existing, bar)
    THEN LET existing == CHOOSE r \in rows : SameKey(r, bar)
         IN  (rows \ {existing}) \cup {bar}
    ELSE rows \cup {bar}

RECURSIVE SavePriceBars(_, _)
SavePriceBars(rows, bars) ==
    IF bars = {} THEN rows
    ELSE LET bar == CHOOSE b \in bars : TRUE
         IN  SavePriceBars(SavePriceBar(rows, bar), bars \ {bar})

\* _save_price_bar_from_dict: session.merge of a PriceData without id adds a
\* new row; the unique index refuses it when the key is held, and the caller
\* rolls the whole session back.
MergeRaises(rows, bars) ==
    \E bar \in bars : \E existing \in rows : SameKey(existing, bar)

\* symbols[i:i+5] for i in range(0, len(symbols), 5)
NumBatches == (Len(IngestSymbols) + AlpacaBatchSize - 1) \div AlpacaBatchSize

\* What get_stock_bars gives for batch k: bars for every symbol of the batch,
\* for its first symbol only, or an exception.
AlpacaSymbols(k, outcome) ==
    IF outcome = "bars"
    THEN { IngestSymbols[i] : i \in { j \in 1..Len(IngestSymbols) :
                                         (j - 1) \div AlpacaBatchSize = k - 1 } }
    ELSE IF outcome = "partial" THEN { IngestSymbols[(k - 1) * AlpacaBatchSize + 1] }
    ELSE {}

\* The non-empty frames the fallback chain can return.
ChainFrames == { {}, {"AAA"}, { IngestSymbols[i] : i \in 1..Len(IngestSymbols) } }

InitIngest ==
    /\ GLOBAL_KILL_SWITCH = "false"
    /\ auto_execute = TRUE
    /\ trade_plans = <<>>
    /\ broker_orders = <<>>
    /\ started = 0
    /\ run_no = [w \in Workers |-> 0]
    /\ pc = [w \in Workers |-> "idle"]
    /\ dry_run = [w \in Workers |-> FALSE]
    /\ news_data = [w \in Workers |-> "none"]
    /\ market_data = [w \in Workers |-> "none"]
    /\ signals = [w \in Workers |-> <<>>]
    /\ trade_plan = [w \in Workers |-> EmptyPlan]
    /\ snapshot = [w \in Workers |-> NoSnapshot]
    /\ plan_id = [w \in Workers |-> 0]
    /\ results = [w \in Workers |-> NoResults]
    /\ order_idx = [w \in Workers |-> 0]
    /\ stages = [w \in Workers |-> {}]
    /\ result = [w \in Workers |-> NoResult]
    /\ xl = XlIdle
    /\ chain = ChainIdle
    /\ fn = FnIdle
    /\ \E client \in BOOLEAN : ingest = [IngestIdle EXCEPT !.alpaca_client = client]
    /\ alpha = AlphaIdle

beside_ingest == <<GLOBAL_KILL_SWITCH, auto_execute, trade_plans, broker_orders, started,
                   run_no, pc, dry_run, news_data, market_data, signals, trade_plan,
                   snapshot, plan_id, results, order_idx, stages, result, xl, chain, fn,
                   alpha>>

\* MarketDataIngestor.fetch_daily_bars(): the Alpaca batches, then the
\* fallback chain unless alpaca_success, then the commit.
IngestDailyBars(outcomes, frames) ==
    /\ ingest.ingests < MaxIngests
    /\ LET n == ingest.ingests + 1
           from_alpaca ==
               IF ingest.alpaca_client
               THEN { Bar(symbol, "alpaca", n) :
                        symbol \in UNION { AlpacaSymbols(k, outcomes[k]) : k \in 1..NumBatches } }
               ELSE {}
           \* alpaca_success is set once the loop over the batches has ended; an
           \* exception of a batch is caught inside the loop.
           alpaca_success == ingest.alpaca_client
           asked == ~alpaca_success
           from_chain == IF asked THEN { Bar(symbol, "chain", n) : symbol \in frames }
                         ELSE {}
       IN  ingest' = [ingest EXCEPT
               !.ingests = n,
               !.price_data = SavePriceBars(SavePriceBars(@, from_alpaca), from_chain),
               !.last = [op |-> "fetch_daily_bars", outcomes |-> outcomes,
                         asked_chain |-> asked, bars |-> from_alpaca \cup from_chain,
                         raised |-> FALSE]]
    /\ UNCHANGED beside_ingest

\* run_daily_ingest, step 5: the frames of fetch_top_symbols_data are saved
\* in one session; an exception rolls it back and is logged.
SaveEnhancedData(frames) ==
    /\ ingest.ingests < MaxIngests
    /\ frames # {}
    /\ LET n == ingest.ingests + 1
           bars == { Bar(symbol, "alpha", n) : symbol \in frames }
       IN  ingest' = [ingest EXCEPT
               !.ingests = n,
               !.price_data = IF MergeRaises(@, bars) THEN @ ELSE @ \cup bars,
               !.last = [op |-> "save_enhanced", outcomes |-> <<>>,
                         asked_chain |-> FALSE, bars |-> bars,
                         raised |-> MergeRaises(ingest.price_data, bars)]]
    /\ UNCHANGED beside_ingest

NextIngest ==
    \/ \E outcomes \in [1..NumBatches -> {"bars", "partial", "raises"}],
          frames \in ChainFrames :
           IngestDailyBars(outcomes, frames)
    \/ \E frames \in ChainFrames : SaveEnhancedData(frames)

SpecIngest == InitIngest /\ [][NextIngest]_vars

\* ------------------------------------------------- runs that overlap
\* main.py run_pipeline builds a TradingPipeline for each request and hands
\* pipeline.run to background_tasks: a request does not wait for the run of
\* an earlier request. Three requests, each served once, no pause or resume
\* by the operator, no fault of the store, of the broker's account calls or
\* of a commit, and no order the broker refuses.
Requests == {1, 2, 3}

InitOverlap ==
    /\ GLOBAL_KILL_SWITCH = "false"
    /\ auto_execute \in BOOLEAN
    /\ trade_plans = <<>>
    /\ broker_orders = <<>>
    /\ started = 0
    /\ run_no = [w \in Requests |-> 0]
    /\ pc = [w \in Requests |-> "idle"]
    /\ dry_run = [w \in Requests |-> FALSE]
    /\ news_data = [w \in Requests |-> "none"]
    /\ market_data = [w \in Requests |-> "none"]
    /\ signals = [w \in Requests |-> <<>>]
    /\ trade_plan = [w \in Requests |-> EmptyPlan]
    /\ snapshot = [w \in Requests |-> NoSnapshot]
    /\ plan_id = [w \in Requests |-> 0]
    /\ results = [w \in Requests |-> NoResults]
    /\ order_idx = [w \in Requests |-> 0]
    /\ stages = [w \in Requests |-> {}]
    /\ result = [w \in Requests |-> NoResult]
    /\ xl = XlIdle
    /\ chain = ChainIdle
    /\ fn = FnIdle
    /\ ingest = IngestIdle
    /\ alpha = AlphaIdle

\* run(force, dry_run) never reads force.
RunPipelineOverlapping(w, force, dry) ==
    /\ pc[w] = "idle"
    /\ \A v \in Requests : v < w => pc[v] # "idle"
    /\ GLOBAL_KILL_SWITCH # "true"
    /\ started' = started + 1
    /\ run_no' = [run_no EXCEPT ![w] = started + 1]
    /\ Goto(w, "breaker")
    /\ dry_run' = [dry_run EXCEPT ![w] = dry]
    /\ stages' = [stages EXCEPT ![w] = {}]
    /\ result' = [result EXCEPT ![w] = NoResult]
    /\ UNCHANGED <<shared, news_data, market_data, signals, trade_plan, snapshot,
                   plan_id, results, order_idx, xl, chain, fn,
                   ingest, alpha>>

NextOverlap ==
    \/ \E w \in Requests, force \in BOOLEAN, dry \in BOOLEAN :
           RunPipelineOverlapping(w, force, dry)
    \/ \E w \in Requests, account \in Accounts :
           CheckCircuitBreakers(w, TRUE, TRUE, account)
    \/ \E w \in Requests : IngestNews(w, TRUE)
    \/ \E w \in Requests : FetchMarketData(w, TRUE)
    \/ \E w \in Requests, generated \in SignalInputs : GenerateSignals(w, TRUE, generated)
    \/ \E w \in Requests : CreateTradePlan(w)
    \/ \E w \in Requests, account \in Accounts, positions_ \in PositionInputs,
          latest_close \in LatestCloseInputs :
           ApplyRiskManagement(w, account, positions_, latest_close, "none")
    \/ \E w \in Requests : SaveTradePlan(w, TRUE)
    \/ \E w \in Requests, outcome \in {"accepted", "paused"} :
           PlaceOrder(w, outcome)
    \/ \E w \in Requests : FinishExecute(w, TRUE)
    \/ \E w \in Requests : GenerateReports(w, TRUE)

SpecOverlap == InitOverlap /\ [][NextOverlap]_vars

\* ------------------------------------------------- libs/alpha_vantage.py
\* The usage file is the record it holds; a date is the number of its day.
\* The write of the file succeeds.
max_daily_calls == 25

\* _load_daily_usage
load_daily_usage(usage_file, today) ==
    IF usage_file.date = today THEN usage_file.calls ELSE 0

can_make_call(daily_calls_made) == daily_calls_made < max_daily_calls

\* What requests.get does with a request that was sent: it returns a response
\* with data, with a rate limit note, with another note or another status,
\* with status 429, or it raises (a timeout, a broken connection).
\* daily_calls_made after requests.get: lines 107-109 and 121, 135.
calls_after_enhanced_data(daily_calls_made, response) ==
    IF response = "raises" THEN daily_calls_made
    ELSE IF response \in {"rate limit note", "429"} THEN max_daily_calls
    ELSE daily_calls_made + 1

beside_alpha == <<GLOBAL_KILL_SWITCH, auto_execute, trade_plans, broker_orders, started,
                  run_no, pc, dry_run, news_data, market_data, signals, trade_plan,
                  snapshot, plan_id, results, order_idx, stages, result, xl, chain, fn,
                  ingest>>

InitAlpha ==
    /\ GLOBAL_KILL_SWITCH = "false"
    /\ auto_execute = TRUE
    /\ trade_plans = <<>>
    /\ broker_orders = <<>>
    /\ started = 0
    /\ run_no = [w \in Workers |-> 0]
    /\ pc = [w \in Workers |-> "idle"]
    /\ dry_run = [w \in Workers |-> FALSE]
    /\ news_data = [w \in Workers |-> "none"]
    /\ market_data = [w \in Workers |-> "none"]
    /\ signals = [w \in Workers |-> <<>>]
    /\ trade_plan = [w \in Workers |-> EmptyPlan]
    /\ snapshot = [w \in Workers |-> NoSnapshot]
    /\ plan_id = [w \in Workers |-> 0]
    /\ results = [w \in Workers |-> NoResults]
    /\ order_idx = [w \in Workers |-> 0]
    /\ stages = [w \in Workers |-> {}]
    /\ result = [w \in Workers |-> NoResult]
    /\ xl = XlIdle
    /\ chain = ChainIdle
    /\ fn = FnIdle
    /\ ingest = IngestIdle
    \* The files a process can find at its start, on day 1: none, one of an
    \* earlier day, one of today. The requests of today are the ones counted.
    /\ \E usage_file \in { [date |-> 0, calls |-> c] : c \in {0, 7} }
                            \cup { [date |-> 1, calls |-> c] : c \in {1, 23, 24, 25} } :
          alpha = [AlphaIdle EXCEPT
                      !.usage_file = usage_file,
                      !.daily_calls_made = load_daily_usage(usage_file, 1),
                      !.sent = load_daily_usage(usage_file, 1),
                      !.last = "init"]

\* AlphaVantageProvider(): a new object reads the usage file.
NewAlphaVantageProvider ==
    /\ alpha' = [alpha EXCEPT
                    !.daily_calls_made = load_daily_usage(alpha.usage_file, alpha.today),
                    !.last = "init"]
    /\ UNCHANGED beside_alpha

\* fetch_enhanced_data(symbol)
FetchEnhancedData(response) ==
    /\ alpha.requests < MaxRequests
    /\ IF ~can_make_call(alpha.daily_calls_made)
       THEN alpha' = [alpha EXCEPT !.requests = @ + 1, !.last = "refused"]
       ELSE LET calls == calls_after_enhanced_data(alpha.daily_calls_made, response) IN
            alpha' = [alpha EXCEPT
                         !.requests = @ + 1,
                         !.sent = @ + 1,
                         !.daily_calls_made = calls,
                         !.usage_file = IF response = "raises" THEN @
                                        ELSE [date |-> alpha.today, calls |-> calls],
                         !.last = response]
    /\ UNCHANGED beside_alpha

\* get_news_sentiment(symbol)
GetNewsSentiment(response) ==
    /\ alpha.requests < MaxRequests
    /\ IF ~can_make_call(alpha.daily_calls_made)
       THEN alpha' = [alpha EXCEPT !.requests = @ + 1, !.last = "refused"]
       ELSE LET calls == IF response = "raises" THEN alpha.daily_calls_made
                         ELSE alpha.daily_calls_made + 1 IN
            alpha' = [alpha EXCEPT
                         !.requests = @ + 1,
                         !.sent = @ + 1,
                         !.daily_calls_made = calls,
                         !.usage_file = IF response = "raises" THEN @
                                        ELSE [date |-> alpha.today, calls |-> calls],
                         !.last = response]
    /\ UNCHANGED beside_alpha

\* The date changes; no request of the new date has been sent.
Midnight ==
    /\ alpha.today < MaxDays
    /\ alpha' = [alpha EXCEPT !.today = @ + 1, !.sent = 0, !.last = "midnight"]
    /\ UNCHANGED beside_alpha

NextAlpha ==
    \/ NewAlphaVantageProvider
    \/ \E response \in {"data", "rate limit note", "other", "429", "raises"} :
           FetchEnhancedData(response)
    \/ \E response \in {"data", "other", "raises"} : GetNewsSentiment(response)
    \/ Midnight

SpecAlpha == InitAlpha /\ [][NextAlpha]_vars

\* ================================================================= claims
InFlight(w) == pc[w] \notin {"idle"} \cup Terminal

\* The row written by the run that worker w holds, once it is written.
Persisted(w) == plan_id[w] \in 1..Len(trade_plans)

PassesAlone(o) ==
    check_exposure_limits(<<o>>, xl.positions, xl.equity).approved = <<o>>

\* C1: of two proposed orders that each pass the three checks alone but whose
\* combined value on top of the current gross exceeds equity x RISK_GROSS_MAX,
\* check_exposure_limits approves the first and rejects the second with a
\* violation.
C1_SecondOrderRejected ==
    ( /\ xl.done
      /\ Len(xl.orders) = 2
      /\ PassesAlone(xl.orders[1])
      /\ PassesAlone(xl.orders[2])
      /\ (PositionsGross(xl.positions) + OrdersValue(xl.orders)) * 100
             > xl.equity * RISK_GROSS_MAX )
    => /\ xl.approved = <<xl.orders[1]>>
       /\ Len(xl.violations) = 1
       /\ xl.violations[1].symbol = xl.orders[2].symbol

\* C2: every persisted TradePlan keeps gross exposure within the limit for the
\* account and positions it was built from: gross of the positions plus the
\* value of the plan's orders is at most equity x RISK_GROSS_MAX.
C2_PersistedGrossWithinLimit ==
    \A w \in Workers :
        (Persisted(w) /\ snapshot[w].taken)
        => (PositionsGross(snapshot[w].positions)
              + OrdersValue(trade_plans[plan_id[w]].orders)) * 100
           <= snapshot[w].account.equity * RISK_GROSS_MAX

RECURSIVE SignedValue(_)
SignedValue(os) ==
    IF os = <<>> THEN 0
    ELSE (IF Head(os).side = "buy" THEN OrderValue(Head(os)) ELSE 0 - OrderValue(Head(os)))
         + SignedValue(Tail(os))

\* C3: the orders approved by check_exposure_limits keep the running net within
\* the limit: |long - short + approved buys - approved sells| is at most
\* equity x RISK_NET_MAX.
C3_ApprovedNetWithinLimit ==
    xl.done
    => Abs(PositionsLong(xl.positions) - PositionsShort(xl.positions)
             + SignedValue(xl.approved)) * 100
       <= RISK_NET_MAX * xl.equity

NoTraceOf(run) ==
    /\ \A i \in 1..Len(trade_plans) : trade_plans[i].run # run
    /\ \A i \in 1..Len(broker_orders) : broker_orders[i].run # run

C5_TripSetsKillSwitch ==
    [][ \A w \in Workers :
          /\ \A account \in Accounts :
               ( /\ CheckCircuitBreakers(w, TRUE, TRUE, account)
                 /\ GLOBAL_KILL_SWITCH # "true"
                 /\ DrawdownHit(account.equity, account.last_equity) )
               => GLOBAL_KILL_SWITCH' = "true"
          /\ ( /\ pc[w] = "risk"
               /\ pc'[w] = "save"
               /\ snapshot'[w].taken
               /\ trade_plan'[w].error = ""
               /\ ~check_circuit_breakers(snapshot'[w].account).ok )
             => GLOBAL_KILL_SWITCH' = "true" ]_vars

\* C6: no step other than /control/resume takes GLOBAL_KILL_SWITCH from "true"
\* to another value.
C6_KillSwitchLatch ==
    [][ (GLOBAL_KILL_SWITCH = "true" /\ GLOBAL_KILL_SWITCH' # "true")
        => resume_trading ]_vars

C6_Witness ==
    /\ GLOBAL_KILL_SWITCH = "true"
    /\ started = MaxRuns
    /\ \E w \in Workers : pc[w] = "execute" /\ results[w].failed # <<>>

\* C7: if a call of the risk stage raises, the plan that reaches PERSIST has no
\* orders, the row persisted for it has no orders and nothing of it is
\* submitted.
C7_RiskErrorClearsOrders ==
    \A w \in Workers :
        trade_plan[w].error # ""
        => /\ trade_plan[w].orders = <<>>
           /\ Persisted(w) =>
                /\ trade_plans[plan_id[w]].orders = <<>>
                /\ \A i \in 1..Len(broker_orders) :
                       broker_orders[i].plan_id # plan_id[w]

C7_Witness ==
    \E w \in Workers :
        /\ Persisted(w)
        /\ trade_plan[w].error = "calculate_risk_metrics"
        /\ PlaceholderOrders(trade_plan[w].signals) # <<>>
        /\ pc[w] = "report"
        /\ "execute" \in stages[w]

\* C8: when the risk stage raises, the notes of the row persisted by that run
\* carry the error message.
C8_NotesCarryRiskError ==
    \A w \in Workers :
        (Persisted(w) /\ trade_plan[w].error # "")
        => trade_plan[w].error \in trade_plans[plan_id[w]].notes.messages

SameOrder(sent, o) ==
    /\ sent.symbol = o.symbol
    /\ sent.side = o.side
    /\ sent.qty = o.qty
    /\ sent.order_type = o.order_type

\* C9: place_order is called, and a request reaches the broker, only from a run
\* with auto-execute on and dry_run false whose plan is already persisted, and
\* the request is an order of the row persisted by that same run.
C9_SubmitOnlyAfterPersist ==
    [][ /\ \A w \in Workers :
             (pc[w] = "execute" /\ pc'[w] = "execute" /\ order_idx'[w] # order_idx[w])
             => (auto_execute /\ ~dry_run[w] /\ Persisted(w))
        /\ ( broker_orders' # broker_orders
             => ( /\ Len(broker_orders') = Len(broker_orders) + 1
                  /\ LET sent == broker_orders'[Len(broker_orders')] IN
                     \E w \in Workers :
                        /\ pc[w] = "execute"
                        /\ auto_execute
                        /\ ~dry_run[w]
                        /\ Persisted(w)
                        /\ sent.plan_id = plan_id[w]
                        /\ sent.run = run_no[w]
                        /\ trade_plans[plan_id[w]].run = run_no[w]
                        /\ \E i \in 1..Len(trade_plans[plan_id[w]].orders) :
                               SameOrder(sent, trade_plans[plan_id[w]].orders[i]) ) )
      ]_vars

C9_Witness ==
    /\ Len(broker_orders) >= 2
    /\ broker_orders[1].plan_id = broker_orders[2].plan_id

Symbols(seq) == { seq[i] : i \in 1..Len(seq) }
FailedSymbols(seq) == { seq[i].symbol : i \in 1..Len(seq) }

\* C10: in _execute_trades every order is attempted once, in list order,
\* whatever the earlier submissions did: after k iterations the first k orders
\* are each in submitted or in failed, and after the loop
\* len(submitted) + len(failed) = total.
C10_EveryOrderAttempted ==
    \A w \in Workers :
        "save" \in stages[w] /\ pc[w] \in {"execute", "report"}
          /\ ExecuteGate(auto_execute, dry_run[w])
        => LET k == IF pc[w] = "execute" THEN order_idx[w] - 1
                    ELSE Len(trade_plan[w].orders) IN
           /\ Len(results[w].submitted) + Len(results[w].failed) = k
           /\ Symbols(results[w].submitted) \cup FailedSymbols(results[w].failed)
                = { trade_plan[w].orders[i].symbol : i \in 1..k }
           /\ results[w].total = Len(trade_plan[w].orders)
           /\ pc[w] = "report" => k = results[w].total

C10_Witness ==
    \E w \in Workers :
        /\ pc[w] = "report"
        /\ Len(trade_plan[w].orders) = 2
        /\ Len(results[w].failed) = 1
        /\ results[w].failed[1].symbol = trade_plan[w].orders[1].symbol
        /\ results[w].submitted = <<trade_plan[w].orders[2].symbol>>

\* The rows of trade_plans written by a run.
RowsOf(run) == { i \in 1..Len(trade_plans) : trade_plans[i].run = run }

\* The requests of a run that client.submit_order accepted.
SentBy(run) == { i \in 1..Len(broker_orders) : broker_orders[i].run = run }

\* C11: once EXECUTE is over or skipped, the executed flag of the row the run
\* persisted is true if and only if the broker accepted at least one order of
\* that run; it is false for a dry run, with auto-execute off, for an empty
\* plan and when every submission failed.
C11_ExecutedIffSubmitted ==
    \A w \in Workers :
        (pc[w] = "report" /\ Persisted(w))
        => /\ trade_plans[plan_id[w]].executed <=> SentBy(run_no[w]) # {}
           /\ ~ExecuteGate(auto_execute, dry_run[w]) => ~trade_plans[plan_id[w]].executed
           /\ trade_plan[w].orders = <<>> => ~trade_plans[plan_id[w]].executed

Statuses == {"completed", "halted", "error"}

\* C12: run() always hands its caller a structured result: a run that is over
\* has a status among completed, halted and error, and a failure outside the
\* stages' own handlers (the kill-flag store or the broker at BREAKER_CHECK,
\* the database at PERSIST or at the end of EXECUTE) gives status=error.
C12_RunNeverRaises ==
    /\ [](\A w \in Workers :
            /\ pc[w] \in Terminal <=> result[w].status \in Statuses
            /\ pc[w] = "error" <=> result[w].status = "error"
            /\ pc[w] = "halted" <=> result[w].status = "halted"
            /\ pc[w] = "done" <=> result[w].status = "completed")
    /\ [][ \A w \in Workers :
             ( \/ \E account_ok \in BOOLEAN, account \in Accounts :
                     CheckCircuitBreakers(w, FALSE, account_ok, account)
               \/ \E account \in Accounts :
                     /\ GLOBAL_KILL_SWITCH # "true"
                     /\ CheckCircuitBreakers(w, TRUE, FALSE, account)
               \/ SaveTradePlan(w, FALSE)
               \/ FinishExecute(w, FALSE) )
             => (pc'[w] = "error" /\ result'[w].status = "error"
                   /\ result'[w].reason # "") ]_vars

C12_Witness ==
    \E w \in Workers :
        /\ pc[w] = "error"
        /\ result[w].status = "error"
        /\ result[w].reason = "commit"
        /\ SentBy(run_no[w]) # {}

BeforePersist == {"news", "market", "signals", "plan", "risk"}

\* C13 as claimed: every run that passed BREAKER_CHECK and is past PERSIST has
\* written exactly one TradePlan row.
C13_PersistAlwaysWrites ==
    \A w \in Workers :
        ("news" \in stages[w] /\ pc[w] \in Terminal \cup {"execute", "report"})
        => /\ "save" \in stages[w]
           /\ Cardinality(RowsOf(run_no[w])) = 1

\* C13 amended: every run that passes BREAKER_CHECK goes stage by stage to
\* PERSIST, whatever failed before it and with zero orders too, and PERSIST
\* writes exactly one TradePlan row unless the write itself raises: then the run
\* returns status=error and has written no row.
C13_PersistUnlessWriteFails ==
    /\ [][ \A w \in Workers :
             /\ pc[w] \in BeforePersist => pc'[w] \in BeforePersist \cup {"save"}
             /\ (pc[w] = "save" /\ pc'[w] # "save")
                => IF pc'[w] = "error"
                   THEN trade_plans' = trade_plans /\ result'[w].status = "error"
                   ELSE /\ Len(trade_plans') = Len(trade_plans) + 1
                        /\ trade_plans'[Len(trade_plans')].run = run_no[w]
                        /\ trade_plans'[Len(trade_plans')].orders = trade_plan[w].orders
           ]_vars
    /\ [](\A w \in Workers :
            ("news" \in stages[w] /\ pc[w] \in Terminal \cup {"execute", "report"})
            => /\ "save" \in stages[w]
               /\ IF pc[w] = "error" /\ "execute" \notin stages[w]
                  THEN RowsOf(run_no[w]) = {}
                  ELSE Cardinality(RowsOf(run_no[w])) = 1)

C13_Witness ==
    \E w \in Workers :
        /\ pc[w] = "report"
        /\ news_data[w] = "failed"
        /\ market_data[w] = "failed"
        /\ signals[w] = <<>>
        /\ Persisted(w)
        /\ trade_plans[plan_id[w]].orders = <<>>
        /\ Cardinality(RowsOf(run_no[w])) = 1

\* C14: a run that persisted a plan enters REPORT whatever happened in EXECUTE
\* and ends with status=completed, and a failure inside the reporter leaves the
\* returned status, plan_id and order count as they are without it.
C14_ReportAlwaysAttempted ==
    /\ [](\A w \in Workers :
            (pc[w] \in Terminal /\ RowsOf(run_no[w]) # {})
            => ("report" \in stages[w] /\ result[w].status = "completed"))
    /\ [][ \A w \in Workers :
             GenerateReports(w, FALSE)
             => /\ result'[w].status = "completed"
                /\ result'[w].plan_id = plan_id[w]
                /\ result'[w].orders = Len(trade_plan[w].orders) ]_vars

AfterMarketData == {"signals", "plan", "risk", "save", "execute", "report"}

\* The only exceptions that reach run() past BREAKER_CHECK: a database write
\* of PERSIST or of EXECUTE that raises.
EndsCompletedOrOnWrite(w) ==
    pc'[w] \in Terminal
    => \/ /\ result'[w].status = "completed"
          /\ {"signals", "risk", "save", "report"} \subseteq stages'[w]
       \/ /\ result'[w].status = "error"
          /\ result'[w].reason = "commit"

ProviderCalled == chain'.calls = chain.calls + 1

\* C17: when fetch_daily_bars returns, the keys of the results and the
\* unresolved set partition the requested symbols, and the caller receives the
\* unresolved set with the results.
C17_ResultsAndUnresolvedPartition ==
    chain.at = "returned"
    => /\ DOMAIN chain.returned.results \cup chain.remaining_symbols = chain.symbols
       /\ DOMAIN chain.returned.results \cap chain.remaining_symbols = {}
       /\ "unresolved" \in DOMAIN chain.returned
       /\ chain.returned.unresolved = chain.remaining_symbols

\* C18: every key of the results holds a frame with at least one bar that a
\* provider returned in this call, and a requested symbol for which no provider
\* returned such a frame is still unresolved.
C18_ResultsHaveBars ==
    /\ \A symbol \in DOMAIN chain.all_results :
           chain.all_results[symbol] = "bars" /\ symbol \in chain.served
    /\ \A symbol \in DOMAIN chain.returned.results :
           chain.returned.results[symbol] = "bars" /\ symbol \in chain.served
    /\ chain.at \in {"loop", "returned"}
       => chain.symbols \ chain.served \subseteq chain.remaining_symbols

C18_Witness ==
    /\ chain.at = "returned"
    /\ chain.last_call.provider = "Finnhub"
    /\ chain.last_call.out.empty # {}
    /\ chain.last_call.out.empty \subseteq chain.warned
    /\ DOMAIN chain.returned.results # {}

\* C19: whichever provider it is, a call that returns fewer than half of the
\* symbols of its batch leaves a cooldown set for that provider, and no
\* provider is called while its cooldown has not expired.
C19_PartialBatchSetsCooldown ==
    [][ ProviderCalled
        => LET call == chain'.last_call IN
           /\ ( /\ call.out.raised = "none"
                /\ 2 * Cardinality(call.out.bars \cup call.out.empty) < Len(call.batch) )
              => /\ call.provider \in DOMAIN chain'.provider_cooldowns
                 /\ chain'.provider_cooldowns[call.provider] > chain'.now
           /\ ~ ( /\ call.provider \in DOMAIN chain.provider_cooldowns
                  /\ chain.now < chain.provider_cooldowns[call.provider] ) ]_vars

\* C20: a call in which the provider met HTTP 429 requested no symbol of the
\* batch after that one, and leaves the provider's cooldown set, however many
\* symbols the call had returned before.
C20_RateLimitSetsCooldown ==
    [][ (ProviderCalled /\ chain'.last_call.out.rate_limited)
        => LET call == chain'.last_call IN
           /\ Len(call.out.requested) <= Len(call.batch)
           /\ \A i \in 1..Len(call.out.requested) : call.out.requested[i] = call.batch[i]
           /\ call.out.bars \cup call.out.empty
                \subseteq { call.out.requested[i] : i \in 1..Len(call.out.requested) - 1 }
           /\ call.provider \in DOMAIN chain'.provider_cooldowns
           /\ chain'.provider_cooldowns[call.provider] = call.time + CooldownSeconds ]_vars

\* C21: constructing a new DataProviderChain keeps every cooldown that has not
\* expired, so that the provider is still skipped by the next fetch.
C21_CooldownSurvivesNewChain ==
    [][ NewChain
        => \A name \in DOMAIN chain.provider_cooldowns :
               chain.now < chain.provider_cooldowns[name]
               => /\ name \in DOMAIN chain'.provider_cooldowns
                  /\ chain'.provider_cooldowns[name] = chain.provider_cooldowns[name] ]_vars

\* C22: in every step, a cooldown that has not expired is still held
\* afterwards with a value that is not earlier, and a value written over a
\* held one is later than it.
C22_CooldownOnlyMovesForward ==
    [][ \A name \in DOMAIN chain.provider_cooldowns :
            /\ chain.now < chain.provider_cooldowns[name]
               => /\ name \in DOMAIN chain'.provider_cooldowns
                  /\ chain'.provider_cooldowns[name] >= chain.provider_cooldowns[name]
            /\ name \in DOMAIN chain'.provider_cooldowns
               => chain'.provider_cooldowns[name] >= chain.provider_cooldowns[name] ]_vars

\* C23: a provider call that raises adds nothing to the results, leaves the
\* unresolved symbols as they were and moves the loop on to the next provider;
\* and no provider is called twice within one fetch_daily_bars call.
C23_ProviderExceptionContained ==
    [][ ProviderCalled
        => LET call == chain'.last_call IN
           /\ \A i \in 1..Len(chain.called) : chain.called[i].provider # call.provider
           /\ call.out.raised # "none"
              => /\ chain'.all_results = chain.all_results
                 /\ chain'.remaining_symbols = chain.remaining_symbols
                 /\ chain'.at = "loop"
                 /\ chain'.idx = chain.idx + 1 ]_vars

C23_Witness ==
    /\ chain.at = "returned"
    /\ Len(chain.called) = 2
    /\ chain.called[1].raised # "none"
    /\ chain.called[2].raised = "none"
    /\ DOMAIN chain.returned.results # {}

\* The place of a provider in DataProviderChain.providers.
PlaceOf(name) == CHOOSE i \in 1..Len(ProviderNames) : ProviderNames[i] = name

\* C36: within one fetch_daily_bars call the providers called so far were
\* called in the order of the list, each at most once; a call is made only
\* while a symbol remains, to a provider that is available and whose cooldown,
\* if it has one, is not in the future, and its batch holds only symbols that
\* no earlier provider of this call returned bars for.
C36_ProvidersInOrderOnRemaining ==
    [][ /\ \A i \in 1..Len(chain'.called), j \in 1..Len(chain'.called) :
              i < j => PlaceOf(chain'.called[i].provider) < PlaceOf(chain'.called[j].provider)
        /\ chain'.calls = chain.calls + 1
           => LET name == chain'.last_call.provider
                  batch == chain'.last_call.batch IN
              /\ chain.at = "loop"
              /\ name = ProviderNames[chain.idx]
              /\ chain'.idx = chain.idx + 1
              /\ chain'.called = Append(chain.called, chain'.called[Len(chain'.called)])
              /\ chain'.called[Len(chain'.called)].provider = name
              /\ chain.remaining_symbols # {}
              /\ batch # <<>>
              /\ chain.available[chain.idx]
              /\ name \in DOMAIN chain.provider_cooldowns
                   => chain.provider_cooldowns[name] <= chain.now
              /\ \A k \in 1..Len(batch) :
                    /\ batch[k] \in chain.symbols
                    /\ batch[k] \in chain.remaining_symbols
                    /\ batch[k] \notin chain.served
                    /\ batch[k] \notin DOMAIN chain.all_results ]_vars

\* The first provider returned bars for one of two symbols and the second was
\* then called with the other symbol alone.
C36_Witness ==
    /\ chain.at = "loop"
    /\ chain.symbols = ChainSymbols
    /\ Len(chain.called) = 2
    /\ chain.last_call.provider = ProviderNames[2]
    /\ Len(chain.last_call.batch) = 1
    /\ chain.last_call.batch[1] \notin chain.served \ chain.last_call.out.bars
    /\ chain.served # {}

\* ------------------------------------------------ claims on single calls
Returned(name) == fn.name = name /\ fn.done

\* C24: calculate_position_size returns 0 when the minimum share count
\* max(1, floor(100/price)) exceeds the maximum floor(50000/price), and the
\* value of the shares it returns is never above 50,000 dollars.
C24_ZeroWhenFloorAboveCeiling ==
    Returned("calculate_position_size")
    => LET price == fn.args.current_price IN
       /\ Max(1, MinPositionValue \div price) > MaxPositionValue \div price
          => fn.out = 0
       /\ fn.out * price <= MaxPositionValue

\* C25 as stated: every positive result is worth at most
\* equity x RISK_MAX_SINGLE_NAME, for positive equity and price and a
\* strength in [0, 1].
C25_WithinSingleNameMaximum ==
    ( /\ Returned("calculate_position_size")
      /\ fn.args.account_equity > 0
      /\ fn.args.current_price > 0
      /\ fn.args.signal_strength \in 0..100
      /\ fn.out > 0 )
    => fn.out * fn.args.current_price * 100 <= fn.args.account_equity * RISK_MAX_SINGLE_NAME

\* floor(equity x fraction x min(1, strength) / price), the share count before
\* the clamp.
UnclampedShares(args) ==
    (args.account_equity * RISK_MAX_SINGLE_NAME * Min(100, args.signal_strength))
        \div (100 * 100 * args.current_price)

\* C25 amended: the result is worth at most equity x RISK_MAX_SINGLE_NAME
\* whenever the share count before the clamp reaches the minimum share count
\* max(1, floor(100/price)); below it the result is the minimum share count.
\* For equity 100000, price 100 and strength 0.8 the result is within 1..20.
C25_WithinSingleNameMaximumUnlessFloored ==
    ( /\ Returned("calculate_position_size")
      /\ fn.args.account_equity > 0
      /\ fn.args.current_price > 0
      /\ fn.args.signal_strength \in 0..100 )
    => LET min_shares == Max(1, MinPositionValue \div fn.args.current_price) IN
       /\ UnclampedShares(fn.args) >= min_shares
          => fn.out * fn.args.current_price * 100
                <= fn.args.account_equity * RISK_MAX_SINGLE_NAME
       /\ UnclampedShares(fn.args) < min_shares => fn.out = min_shares
       /\ fn.args = [signal_strength |-> 80, account_equity |-> 100000,
                     current_price |-> 100]
          => fn.out \in 1..20

C25_Witness ==
    /\ Returned("calculate_position_size")
    /\ fn.args = [signal_strength |-> 80, account_equity |-> 100000, current_price |-> 100]
    /\ fn.out = 16

\* C26: check_circuit_breakers answers ok = false exactly when last_equity > 0
\* and (equity - last_equity) / last_equity < -DAILY_DRAWDOWN_HALT, then with
\* a message that names the drawdown, and ok = true in every other case.
C26_BreakerTripsBelowThreshold ==
    Returned("check_circuit_breakers")
    => LET equity == fn.args.equity
           last_equity == fn.args.last_equity
           below == /\ last_equity > 0
                    /\ (equity - last_equity) * 100 < (0 - DAILY_DRAWDOWN_HALT) * last_equity
       IN  /\ fn.out.ok = ~below
           /\ ~fn.out.ok => fn.out.msg = "Daily drawdown limit hit"

C26_Witness ==
    /\ Returned("check_circuit_breakers")
    /\ fn.args = [equity |-> 98000, last_equity |-> 100000]
    /\ fn.out.ok

\* The factors of a call that are counted, their weights and their weighted
\* normalized values.
Counted(weights, factors) == { n \in DOMAIN factors : Contributes(weights, n) }

RECURSIVE SumOver(_, _)
SumOver(f, S) ==
    IF S = {} THEN 0
    ELSE LET x == CHOOSE y \in S : TRUE IN f[x] + SumOver(f, S \ {x})

\* C27: calculate_composite_score returns exactly 0.5 when no factor is
\* counted or the counted weights sum to 0; otherwise it returns the sum of
\* normalized value x weight over the counted factors divided by the sum of
\* their weights.
C27_NeutralOrWeightedMean ==
    Returned("calculate_composite_score")
    => LET weights == fn.args.weights
           factors == fn.args.factors
           counted == Counted(weights, factors)
           total   == SumOver([n \in counted |-> WeightOf(weights, n)], counted)
           sum     == SumOver([n \in counted |->
                                  normalize_factor(n, factors[n]) * WeightOf(weights, n)],
                              counted)
       IN  IF counted = {} \/ total = 0
           THEN fn.out = Fraction(NormOne \div 2, 1)
           ELSE /\ fn.out.den > 0
                /\ fn.out.num * total = sum * fn.out.den

\* A call in which one factor is disabled and three are counted, one of
\* them without a weight.
C27_Witness ==
    /\ Returned("calculate_composite_score")
    /\ Cardinality(Counted(fn.args.weights, fn.args.factors)) = 3
    /\ \E n \in DOMAIN fn.args.factors : ~Contributes(fn.args.weights, n)
    /\ 2 * fn.out.num # NormOne * fn.out.den

\* The signals of the output for a symbol.
Emitted(symbol) == { i \in 1..Len(fn.out) : fn.out[i].symbol = symbol }

\* C28: with the default factor weights, every symbol with at least 300 bars
\* of steadily rising closes gets a signal with a composite score above 0.6
\* and action buy.
C28_RisingClosesAreBought ==
    (Returned("generate_signals") /\ fn.args.weights = DefaultFactors)
    => \A symbol \in DOMAIN fn.args.history :
           (fn.args.history[symbol].bars >= 300 /\ ~fn.args.history[symbol].error)
           => \E i \in Emitted(symbol) :
                  /\ fn.out[i].score.num * 100 > BuyThreshold * NormOne * fn.out[i].score.den
                  /\ fn.out[i].action = "buy"

\* C29: every signal generate_signals returns is for a symbol with at least
\* MinBars bars, and a symbol with fewer bars has no signal in the output.
C29_NoSignalUnderMinBars ==
    Returned("generate_signals")
    => /\ \A i \in 1..Len(fn.out) : fn.args.history[fn.out[i].symbol].bars >= MinBars
       /\ \A symbol \in DOMAIN fn.args.history :
              fn.args.history[symbol].bars < MinBars => Emitted(symbol) = {}

C29_Witness ==
    /\ Returned("generate_signals")
    /\ fn.args.history["AAA"].bars = MinBars - 1
    /\ ~fn.args.history["AAA"].error
    /\ fn.args.history["BBB"].bars = MinBars
    /\ Emitted("AAA") = {}
    /\ Emitted("BBB") # {}

\* C30: optimize_portfolio returns at most max_positions orders; each is a buy
\* for a buy signal of the list and carries its score, the scores do not rise
\* along the orders, and qty x price summed over the orders is at most
\* equity x RISK_GROSS_MAX.
C30_PortfolioWithinLimits ==
    Returned("optimize_portfolio")
    => LET orders   == fn.out
           signals_ == fn.args.signals
       IN  /\ Len(orders) <= max_positions
           /\ \A i \in 1..Len(orders) :
                  /\ orders[i].side = "buy"
                  /\ \E j \in 1..Len(signals_) :
                         /\ signals_[j].symbol = orders[i].symbol
                         /\ signals_[j].action = "buy"
                         /\ signals_[j].score = orders[i].confidence
           /\ \A i \in 1..Len(orders), k \in 1..Len(orders) :
                  i < k => orders[i].confidence >= orders[k].confidence
           /\ OrdersValue(orders) * 100 <= fn.args.account_data.equity * RISK_GROSS_MAX

\* More buy signals than max_positions, all affordable: the cap decides.
C30_Witness ==
    /\ Returned("optimize_portfolio")
    /\ Len(fn.args.signals) > max_positions
    /\ \A j \in 1..Len(fn.args.signals) : fn.args.signals[j].action = "buy"
    /\ Len(fn.out) = max_positions
    /\ fn.out[1].confidence > fn.out[max_positions].confidence

\* C32: a step keeps every stored plan as it is but for its executed flag;
\* the step that persists the plan of a run stores the orders, the symbols of
\* these orders, the risk metrics and the mode that the risk stage left in
\* the plan of that run.
C32_StoredPlanOnlyChangesExecuted ==
    [][ /\ Len(trade_plans') >= Len(trade_plans)
        /\ \A id \in 1..Len(trade_plans) :
               trade_plans'[id] = [trade_plans[id] EXCEPT
                                      !.executed = trade_plans'[id].executed]
        /\ \A w \in Workers :
               (pc[w] = "save" /\ Len(trade_plans') > Len(trade_plans))
               => LET row == trade_plans'[Len(trade_plans')] IN
                  /\ Len(trade_plans') = Len(trade_plans) + 1
                  /\ row.orders = trade_plan[w].orders
                  /\ row.universe = SymbolsOf(trade_plan[w].orders)
                  /\ row.risk_metrics = trade_plan[w].risk_metrics
                  /\ row.mode = TRADING_MODE
                  /\ ~row.executed ]_vars

\* A run that executed part of its plan: one order accepted, one refused.
C32_Witness ==
    \E w \in Workers :
        /\ pc[w] = "report"
        /\ Persisted(w)
        /\ trade_plans[plan_id[w]].executed
        /\ Len(results[w].failed) > 0
        /\ trade_plans[plan_id[w]].orders = trade_plan[w].orders
        /\ Len(trade_plan[w].orders) > Len(results[w].submitted)

\* ------------------------------------------------ claims on the broker's mode
BothConfirmations(environ) ==
    /\ "LIVE_TRADING_ENABLED" \in DOMAIN environ
    /\ environ["LIVE_TRADING_ENABLED"] = "true"
    /\ "LIVE_CONFIRM_PHRASE" \in DOMAIN environ
    /\ environ["LIVE_CONFIRM_PHRASE"] = "I_UNDERSTAND_THE_RISKS"

AsksFor(environ, mode) ==
    "TRADING_MODE" \in DOMAIN environ /\ environ["TRADING_MODE"] = mode

\* C34: the mode of an AlpacaBroker is live exactly when TRADING_MODE is live,
\* LIVE_TRADING_ENABLED is true and LIVE_CONFIRM_PHRASE is
\* I_UNDERSTAND_THE_RISKS; with TRADING_MODE live and a confirmation missing,
\* and with TRADING_MODE paper, it is paper; the client uses the live endpoint
\* only for the mode live, hence only with both confirmations.
C34_LiveNeedsBothConfirmations ==
    Returned("AlpacaBroker")
    => /\ fn.out.mode = "live"
            <=> (AsksFor(fn.args, "live") /\ BothConfirmations(fn.args))
       /\ (AsksFor(fn.args, "live") /\ ~BothConfirmations(fn.args))
            => fn.out.mode = "paper"
       /\ AsksFor(fn.args, "paper") => fn.out.mode = "paper"
       /\ ~fn.out.client.paper <=> fn.out.mode = "live"
       /\ fn.out.client.endpoint = "https://api.alpaca.markets"
            => (AsksFor(fn.args, "live") /\ BothConfirmations(fn.args))

\* Live is asked for and enabled, the phrase is not the right one: paper.
C34_Witness ==
    /\ Returned("AlpacaBroker")
    /\ AsksFor(fn.args, "live")
    /\ "LIVE_TRADING_ENABLED" \in DOMAIN fn.args
    /\ fn.args["LIVE_TRADING_ENABLED"] = "true"
    /\ ~BothConfirmations(fn.args)
    /\ fn.out.mode = "paper"
    /\ fn.out.client.paper

\* ------------------------------------------------ claims on overlapping runs
\* The run of request w has written its row and has not returned yet.
HoldsPlan(w) == pc[w] \in {"execute", "report"} /\ Persisted(w)

\* What the runs of v and w were given from outside: the generated signals
\* and the account and positions the broker returned to the risk stage.
SameExternalState(v, w) ==
    /\ signals[v] = signals[w]
    /\ snapshot[v].taken
    /\ snapshot[v] = snapshot[w]

\* C33: of two runs given the same external state, one a dry run and one not,
\* the persisted rows carry the same orders, universe, risk metrics and mode;
\* a dry run never enters EXECUTE, no order at the broker is of that run and
\* its row keeps executed = false. (run() never reads its force parameter, so
\* a run is the same for either value of it.)
C33_DryRunOnlyAtGate ==
    /\ \A v \in Requests, w \in Requests :
          ( /\ HoldsPlan(v)
            /\ HoldsPlan(w)
            /\ dry_run[v]
            /\ ~dry_run[w]
            /\ SameExternalState(v, w) )
          => LET dry == trade_plans[plan_id[v]]
                 wet == trade_plans[plan_id[w]] IN
             /\ dry.orders = wet.orders
             /\ dry.universe = wet.universe
             /\ dry.risk_metrics = wet.risk_metrics
             /\ dry.mode = wet.mode
    /\ \A v \in Requests :
          (dry_run[v] /\ pc[v] \notin {"idle"} \cup Terminal)
          => /\ pc[v] # "execute"
             /\ SentBy(run_no[v]) = {}
             /\ \A id \in RowsOf(run_no[v]) : ~trade_plans[id].executed

\* A dry run and a run that submitted an order hold rows with the same,
\* non-empty, orders.
C33_Witness ==
    \E v \in Requests, w \in Requests :
        /\ HoldsPlan(v)
        /\ HoldsPlan(w)
        /\ dry_run[v]
        /\ ~dry_run[w]
        /\ SameExternalState(v, w)
        /\ trade_plans[plan_id[v]].orders # <<>>
        /\ SentBy(run_no[w]) # {}
        /\ pc[w] = "report"
        /\ trade_plans[plan_id[w]].executed

\* The stages of a run between a passed BREAKER_CHECK and its return.
PastCheck == {"news", "market", "signals", "plan", "risk", "save", "execute", "report"}

\* C35: the check of the kill flag is a read followed by an act, with nothing
\* that serializes runs. A run passes BREAKER_CHECK when it reads the flag as
\* not tripped, whatever stage the other runs are in, and passing writes
\* nothing; a run that has passed is never halted afterwards, and at SAVE it
\* writes its own row, also when the flag has been tripped by another run in
\* the meantime. So overlapping runs both pass, persist and execute.
C35_CheckIsReadThenAct ==
    [][ \A w \in Requests :
          /\ (pc[w] = "breaker" /\ pc'[w] = "news")
             => /\ GLOBAL_KILL_SWITCH # "true"
                /\ GLOBAL_KILL_SWITCH' = GLOBAL_KILL_SWITCH
          /\ (pc[w] = "breaker" /\ pc'[w] # pc[w] /\ GLOBAL_KILL_SWITCH # "true"
                /\ GLOBAL_KILL_SWITCH' # "true")
             => pc'[w] = "news"
          /\ (pc[w] \in PastCheck /\ pc'[w] # pc[w])
             => pc'[w] \in PastCheck \cup {"done"}
          /\ (pc[w] = "save" /\ pc'[w] # pc[w])
             => /\ Len(trade_plans') = Len(trade_plans) + 1
                /\ plan_id'[w] = Len(trade_plans')
                /\ trade_plans'[plan_id'[w]].run = run_no[w] ]_vars

\* Two runs passed the check, wrote their rows and each had an order accepted;
\* a third run tripped the breaker after they had read the flag, and one of
\* the two still has an order to place.
C35_Witness ==
    \E v \in Requests, w \in Requests, t \in Requests :
        /\ v # w
        /\ HoldsPlan(v)
        /\ HoldsPlan(w)
        /\ plan_id[v] # plan_id[w]
        /\ SentBy(run_no[v]) # {}
        /\ SentBy(run_no[w]) # {}
        /\ pc[w] = "execute"
        /\ order_idx[w] <= Len(trade_plan[w].orders)
        /\ pc[t] = "halted"
        /\ run_no[t] > run_no[v]
        /\ run_no[t] > run_no[w]
        /\ GLOBAL_KILL_SWITCH = "true"

\* ------------------------------------------------ claims on place_order
\* C38: a call of place_order made while the kill flag reads true raises
\* before anything is sent: the broker receives no request, the order is
\* appended to the failed list of the run with the pause as its error, and
\* the submitted list stays as it was.
C38_FlagStopsEachOrder ==
    [][ \A w \in Workers :
          ( /\ pc[w] = "execute"
            /\ order_idx'[w] = order_idx[w] + 1
            /\ GLOBAL_KILL_SWITCH = "true" )
          => /\ broker_orders' = broker_orders
             /\ results'[w].submitted = results[w].submitted
             /\ results'[w].failed =
                  Append(results[w].failed,
                         [symbol |-> trade_plan[w].orders[order_idx[w]].symbol,
                          error |-> "paused"]) ]_vars

\* The flag was set while a run was placing its orders: the first order went
\* to the broker, the next one failed on the flag.
C38_Witness ==
    \E w \in Workers :
        /\ pc[w] = "execute"
        /\ GLOBAL_KILL_SWITCH = "true"
        /\ SentBy(run_no[w]) # {}
        /\ Len(results[w].submitted) > 0
        /\ \E i \in 1..Len(results[w].failed) : results[w].failed[i].error = "paused"

\* C39: the executed field of the result of a completed run equals the
\* executed flag of the row the run persisted, and it is true only if the
\* broker accepted an order of that run.
C39_ResultAgreesWithRow ==
    \A w \in Workers :
        (pc[w] = "done" /\ result[w].plan_id \in 1..Len(trade_plans))
        => /\ result[w].executed = trade_plans[result[w].plan_id].executed
           /\ result[w].executed
                => \E i \in 1..Len(broker_orders) :
                       broker_orders[i].plan_id = result[w].plan_id

\* ------------------------------------------------ claims on the usage counter
\* The count the usage file holds for the date a.today.
CountedToday(a) == IF a.usage_file.date = a.today THEN a.usage_file.calls ELSE 0

\* C37: the count the usage file holds for the current date is at least the
\* number of requests sent on that date, whatever became of them; the stored
\* count is never above 25; and a request is sent only while the count stored
\* for the current date is below 25.
C37_CounterCountsEveryRequest ==
    [][ /\ CountedToday(alpha') >= alpha'.sent
        /\ alpha'.usage_file.calls <= max_daily_calls
        /\ alpha'.sent = alpha.sent + 1 => CountedToday(alpha) < max_daily_calls ]_vars

\* ------------------------------------------------ claims on the price store
\* Index('idx_symbol_date', 'symbol', 'date', unique=True)
UniqueKeys(rows) ==
    \A r1 \in rows, r2 \in rows : SameKey(r1, r2) => r1 = r2

\* C31: after every ingest write the table holds at most one row per
\* (symbol, date), and every bar handed to the store in that write is the row
\* of its key afterwards, whether the key was held before or not.
C31_LastWriteWins ==
    [][ ingest'.ingests = ingest.ingests + 1
        => /\ UniqueKeys(ingest'.price_data)
           /\ ~ingest'.last.raised
           /\ \A bar \in ingest'.last.bars : bar \in ingest'.price_data ]_vars

\* C40: a fetch in which an Alpaca client is configured and every Alpaca batch
\* request raised has asked the fallback chain for the symbols.
C40_FallbackWhenAlpacaFails ==
    ( /\ ingest.last.op = "fetch_daily_bars"
      /\ ingest.alpaca_client
      /\ \A k \in 1..NumBatches : ingest.last.outcomes[k] = "raises" )
    => ingest.last.asked_chain

====
